---------------------------- MODULE Spec2Model ----------------------------
(* The inventory server of src/index.js and src/unnamed/part_001: a        *)
(* catalog of items and a ledger of transactions tied to the items by      *)
(* name, kept in a document store.  The state is the two collections, the  *)
(* requests in flight and the last response sent.  A route handler is one  *)
(* action per store call it awaits: the step of its first call takes the   *)
(* request in, the step of its last call sends the response, and the       *)
(* steps of other requests may fall between them.  Numbers are IEEE 754    *)
(* doubles; strings are sequences of characters.                           *)
EXTENDS Integers, Sequences, FiniteSets, TLC

VARIABLES items, txns, nextItemId, nextTxnId, resp, reqs

vars == <<items, txns, nextItemId, nextTxnId, resp, reqs>>

---------------------------------------------------------------------------
(* Natural numbers of any size: sequences of limbs in base 2^15, least     *)
(* significant first, without a leading zero limb; <<>> is 0.  They carry   *)
(* the 53-bit significands, and the exact sums and products that are then  *)
(* rounded.                                                                *)

Base == 32768
LimbBits == 15

Max2(a, b) == IF a >= b THEN a ELSE b
Min2(a, b) == IF a <= b THEN a ELSE b

RECURSIVE Pow2(_)
Pow2(k) == IF k = 0 THEN 1 ELSE 2 * Pow2(k - 1)

\* a without its leading zero limbs
BigNorm(a) ==
  LET top == CHOOSE i \in 0..Len(a) :
               (i = 0 \/ a[i] # 0) /\ \A j \in (i + 1)..Len(a) : a[j] = 0
  IN SubSeq(a, 1, top)

Limb(a, i) == IF i <= Len(a) THEN a[i] ELSE 0

BigFromNat(x) ==
  IF x = 0 THEN <<>>
  ELSE IF x < Base THEN <<x>>
  ELSE IF x \div Base < Base THEN <<x % Base, x \div Base>>
  ELSE <<x % Base, (x \div Base) % Base, x \div (Base * Base)>>

\* The operations below work on a range lo..hi of limbs, halving it: the
\* carry of the lower half goes into the upper half (the remainder of the
\* upper half into the lower one for division).  The carry is looked at
\* before it is handed on, so that the first half is worked out first.

\* Limbs lo..hi of a + b + c, and the carry out of them.
RECURSIVE BigAddRange(_, _, _, _, _)
BigAddRange(a, b, lo, hi, c) ==
  IF lo > hi THEN [v |-> <<>>, c |-> c]
  ELSE IF lo = hi
       THEN [v |-> <<(Limb(a, lo) + Limb(b, lo) + c) % Base>>,
             c |-> (Limb(a, lo) + Limb(b, lo) + c) \div Base]
  ELSE LET mid == (lo + hi) \div 2
           low == BigAddRange(a, b, lo, mid, c)
           high == IF low.c = 0 THEN BigAddRange(a, b, mid + 1, hi, 0)
                   ELSE BigAddRange(a, b, mid + 1, hi, 1)
       IN [v |-> low.v \o high.v, c |-> high.c]

BigAdd(a, b) ==
  LET res == BigAddRange(a, b, 1, Max2(Len(a), Len(b)), 0)
  IN IF res.c = 0 THEN res.v ELSE Append(res.v, res.c)

\* Limbs lo..hi of a - b - c, and the borrow out of them.
RECURSIVE BigSubRange(_, _, _, _, _)
BigSubRange(a, b, lo, hi, c) ==
  IF lo > hi THEN [v |-> <<>>, c |-> c]
  ELSE IF lo = hi
       THEN IF a[lo] - Limb(b, lo) - c < 0
            THEN [v |-> <<a[lo] - Limb(b, lo) - c + Base>>, c |-> 1]
            ELSE [v |-> <<a[lo] - Limb(b, lo) - c>>, c |-> 0]
  ELSE LET mid == (lo + hi) \div 2
           low == BigSubRange(a, b, lo, mid, c)
           high == IF low.c = 0 THEN BigSubRange(a, b, mid + 1, hi, 0)
                   ELSE BigSubRange(a, b, mid + 1, hi, 1)
       IN [v |-> low.v \o high.v, c |-> high.c]

\* a - b for a >= b
BigSub(a, b) == BigNorm(BigSubRange(a, b, 1, Len(a), 0).v)

\* -1, 0 or 1 as a is below, equal to or above b
BigCmp(a, b) ==
  IF Len(a) < Len(b) THEN -1
  ELSE IF Len(a) > Len(b) THEN 1
  ELSE IF a = b THEN 0
  ELSE LET i == CHOOSE h \in 1..Len(a) :
                  a[h] # b[h] /\ \A j \in (h + 1)..Len(a) : a[j] = b[j]
       IN IF a[i] < b[i] THEN -1 ELSE 1

\* Limbs lo..hi of a * s + c, and the carry out of them.
RECURSIVE BigMulSmallRange(_, _, _, _, _)
BigMulSmallRange(a, s, lo, hi, c) ==
  IF lo > hi THEN [v |-> <<>>, c |-> c]
  ELSE IF lo = hi
       THEN [v |-> <<(a[lo] * s + c) % Base>>, c |-> (a[lo] * s + c) \div Base]
  ELSE LET mid == (lo + hi) \div 2
           low == BigMulSmallRange(a, s, lo, mid, c)
           high == IF low.c = 0 THEN BigMulSmallRange(a, s, mid + 1, hi, 0)
                   ELSE BigMulSmallRange(a, s, mid + 1, hi, low.c)
       IN [v |-> low.v \o high.v, c |-> high.c]

\* a * s for 0 <= s < Base
BigMulSmall(a, s) ==
  IF s = 0 \/ a = <<>> THEN <<>>
  ELSE LET res == BigMulSmallRange(a, s, 1, Len(a), 0)
       IN IF res.c = 0 THEN res.v ELSE Append(res.v, res.c)

Zeros(n) == [i \in 1..n |-> 0]

\* a * Base^n
BigShiftLimbs(a, n) == IF a = <<>> THEN <<>> ELSE Zeros(n) \o a

\* a times the number of the limbs lo..hi of b
RECURSIVE BigMulRange(_, _, _, _)
BigMulRange(a, b, lo, hi) ==
  IF lo = hi THEN BigMulSmall(a, b[lo])
  ELSE LET mid == (lo + hi) \div 2
       IN BigAdd(BigMulRange(a, b, lo, mid),
                 BigShiftLimbs(BigMulRange(a, b, mid + 1, hi), mid - lo + 1))

BigMul(a, b) == IF a = <<>> \/ b = <<>> THEN <<>> ELSE BigMulRange(a, b, 1, Len(b))

\* Limbs lo..hi of the quotient of r * Base^hi + a by d, and the remainder
\* they leave, for 0 <= r < d <= Base.
RECURSIVE BigDivSmallRange(_, _, _, _, _)
BigDivSmallRange(a, d, lo, hi, r) ==
  IF lo > hi THEN [q |-> <<>>, r |-> r]
  ELSE IF lo = hi
       THEN [q |-> <<(r * Base + a[lo]) \div d>>, r |-> (r * Base + a[lo]) % d]
  ELSE LET mid == (lo + hi) \div 2
           high == BigDivSmallRange(a, d, mid + 1, hi, r)
           low == IF high.r = 0 THEN BigDivSmallRange(a, d, lo, mid, 0)
                  ELSE BigDivSmallRange(a, d, lo, mid, high.r)
       IN [q |-> low.q \o high.q, r |-> low.r]

\* Quotient and remainder of a by d, 0 < d <= Base.
BigDivSmall(a, d) ==
  LET res == BigDivSmallRange(a, d, 1, Len(a), 0)
  IN [q |-> BigNorm(res.q), r |-> res.r]

\* a * 2^k
BigShl(a, k) ==
  IF a = <<>> THEN <<>>
  ELSE Zeros(k \div LimbBits) \o BigMulSmall(a, Pow2(k % LimbBits))

\* floor(a / 2^k)
BigShr(a, k) ==
  LET q == k \div LimbBits
  IN IF q >= Len(a) THEN <<>>
     ELSE BigDivSmall(SubSeq(a, q + 1, Len(a)), Pow2(k % LimbBits)).q

\* Bit k of a, bit 0 being the lowest.
BigBit(a, k) == (Limb(a, (k \div LimbBits) + 1) \div Pow2(k % LimbBits)) % 2

\* Some bit of a below bit k is set.
BigAnyBelow(a, k) ==
  \/ \E i \in 1..Min2(k \div LimbBits, Len(a)) : a[i] # 0
  \/ Limb(a, (k \div LimbBits) + 1) % Pow2(k % LimbBits) # 0

RECURSIVE NatBitLen(_)
NatBitLen(x) == IF x = 0 THEN 0 ELSE 1 + NatBitLen(x \div 2)

BigBitLen(a) ==
  IF a = <<>> THEN 0 ELSE (Len(a) - 1) * LimbBits + NatBitLen(a[Len(a)])

RECURSIVE NatTrailingZeros(_)
NatTrailingZeros(x) == IF x % 2 = 1 THEN 0 ELSE 1 + NatTrailingZeros(x \div 2)

\* The number of zero bits below the lowest set bit of a # 0.
BigTrailingZeros(a) ==
  LET i == CHOOSE j \in 1..Len(a) : a[j] # 0 /\ \A h \in 1..(j - 1) : a[h] = 0
  IN (i - 1) * LimbBits + NatTrailingZeros(a[i])

BigIsOdd(a) == a # <<>> /\ a[1] % 2 = 1

\* The value of a, for a below 2^30.
BigToNat(a) == Limb(a, 1) + Base * Limb(a, 2)

---------------------------------------------------------------------------
(* JavaScript values.  A number is an IEEE 754 double: sign, odd           *)
(* significand and binary exponent (value sgn * mant * 2^exp; zero has the *)
(* empty significand and keeps its sign), or an infinity, or NaN.          *)

Float(sgn, mant, exp) == [sgn |-> sgn, mant |-> mant, exp |-> exp]
NoFloat == Float(1, <<>>, 0)

Undef == [k |-> "undef", n |-> NoFloat, s |-> <<>>]
Null == [k |-> "null", n |-> NoFloat, s |-> <<>>]
NaN == [k |-> "nan", n |-> NoFloat, s |-> <<>>]
Str(cs) == [k |-> "str", n |-> NoFloat, s |-> cs]
Infinity(sgn) == [k |-> "inf", n |-> Float(sgn, <<>>, 0), s |-> <<>>]
Zero(sgn) == [k |-> "num", n |-> Float(sgn, <<>>, 0), s |-> <<>>]

\* The finite double sgn * m * 2^e for a significand m # 0 that fits; the
\* tz zero bits at its low end go into the exponent.
FiniteOdd(sgn, m, e, tz) ==
  [k |-> "num", n |-> Float(sgn, BigShr(m, tz), e + tz), s |-> <<>>]

Finite(sgn, m, e) == FiniteOdd(sgn, m, e, BigTrailingZeros(m))

\* sgn * r * 2^q for a significand r of at most 53 bits: an infinity from
\* 2^1024 on.
Rounded(sgn, r, q) ==
  IF r = <<>> THEN Zero(sgn)
  ELSE IF BigBitLen(r) + q > 1024 THEN Infinity(sgn)
  ELSE Finite(sgn, r, q)

\* m with its d lowest bits cut off, kept being what is left: it goes up by
\* one when the bits cut off are above the half, or are the half and kept
\* is odd.
RoundKept(sgn, m, d, kept, q) ==
  Rounded(sgn,
          IF BigBit(m, d - 1) = 1 /\ (BigAnyBelow(m, d - 1) \/ BigIsOdd(kept))
          THEN BigAdd(kept, <<1>>) ELSE kept,
          q)

\* m * 2^e with the bits below 2^q rounded away.
RoundAt(sgn, m, e, q) ==
  IF q <= e THEN Rounded(sgn, m, e) ELSE RoundKept(sgn, m, q - e, BigShr(m, q - e), q)

\* The double nearest to sgn * m * 2^e, ties to the even significand:
\* 53 bits, fewer below 2^-1022, an infinity from 2^1024 on.
RoundToDouble(sgn, m, e) == RoundAt(sgn, m, e, Max2(e + BigBitLen(m) - 53, -1074))

\* The number x, an integer of the model.
Num(x) ==
  IF x = 0 THEN Zero(1)
  ELSE Finite(IF x < 0 THEN -1 ELSE 1, BigFromNat(IF x < 0 THEN -x ELSE x), 0)

IsNumber(v) == v.k \in {"num", "inf", "nan"}
IsZero(v) == v.k = "num" /\ v.n.mant = <<>>
IsNegative(v) == v.k \in {"num", "inf"} /\ v.n.sgn = -1 /\ ~IsZero(v)

\* -a
Negate(a) ==
  IF a.k \in {"num", "inf"} THEN [a EXCEPT !.n.sgn = -a.n.sgn] ELSE a

\* sa * ma * 2^e + sb * mb * 2^e, c being the comparison of ma with mb.
PlusAligned(sa, ma, sb, mb, e, c) ==
  IF sa # sb /\ c = 0 THEN Zero(1)
  ELSE RoundToDouble(IF sa = sb \/ c > 0 THEN sa ELSE sb,
                     IF sa = sb THEN BigAdd(ma, mb)
                     ELSE IF c > 0 THEN BigSub(ma, mb) ELSE BigSub(mb, ma),
                     e)

\* The sum of two finite doubles that are not zero, e being the lower of
\* their exponents.
PlusFinite(a, ma, b, mb, e) == PlusAligned(a.n.sgn, ma, b.n.sgn, mb, e, BigCmp(ma, mb))

\* a + b
Plus(a, b) ==
  IF a.k = "nan" \/ b.k = "nan" THEN NaN
  ELSE IF a.k = "inf"
       THEN IF b.k = "inf" /\ b.n.sgn # a.n.sgn THEN NaN ELSE a
  ELSE IF b.k = "inf" THEN b
  ELSE IF IsZero(a)
       THEN IF IsZero(b) THEN Zero(IF a.n.sgn = -1 /\ b.n.sgn = -1 THEN -1 ELSE 1)
            ELSE b
  ELSE IF IsZero(b) THEN a
  ELSE PlusFinite(a, BigShl(a.n.mant, a.n.exp - Min2(a.n.exp, b.n.exp)),
                  b, BigShl(b.n.mant, b.n.exp - Min2(a.n.exp, b.n.exp)),
                  Min2(a.n.exp, b.n.exp))

\* a - b
Minus(a, b) == Plus(a, Negate(b))

\* a * b
Times(a, b) ==
  IF a.k = "nan" \/ b.k = "nan" THEN NaN
  ELSE IF (a.k = "inf" /\ IsZero(b)) \/ (b.k = "inf" /\ IsZero(a)) THEN NaN
  ELSE IF a.k = "inf" \/ b.k = "inf" THEN Infinity(a.n.sgn * b.n.sgn)
  ELSE RoundToDouble(a.n.sgn * b.n.sgn, BigMul(a.n.mant, b.n.mant),
                     a.n.exp + b.n.exp)

\* a === b
StrictEquals(a, b) ==
  IF a.k = "nan" \/ b.k = "nan" THEN FALSE
  ELSE IF IsZero(a) /\ IsZero(b) THEN TRUE
  ELSE a = b

\* JS truthiness: undefined, null, NaN, 0, -0 and "" are falsy.
Truthy(v) ==
  CASE v.k = "undef" -> FALSE
    [] v.k = "null" -> FALSE
    [] v.k = "nan" -> FALSE
    [] v.k = "inf" -> TRUE
    [] v.k = "num" -> ~IsZero(v)
    [] v.k = "str" -> v.s # <<>>

\* a || b
OrElse(a, b) == IF Truthy(a) THEN a ELSE b
---------------------------------------------------------------------------
(* Strings: sequences of one-character strings *)

\* The printable ASCII characters from code 32 to 95, and from 97 to 126.
AsciiLow ==
  <<" ", "!", "\"", "#", "$", "%", "&", "'", "(", ")", "*", "+", ",", "-", ".", "/",
    "0", "1", "2", "3", "4", "5", "6", "7", "8", "9",
    ":", ";", "<", "=", ">", "?", "@",
    "A", "B", "C", "D", "E", "F", "G", "H", "I", "J", "K", "L", "M",
    "N", "O", "P", "Q", "R", "S", "T", "U", "V", "W", "X", "Y", "Z",
    "[", "\\", "]", "^", "_">>

AsciiHigh ==
  <<"a", "b", "c", "d", "e", "f", "g", "h", "i", "j", "k", "l", "m",
    "n", "o", "p", "q", "r", "s", "t", "u", "v", "w", "x", "y", "z",
    "{", "|", "}", "~">>

\* The white space below the printable range: tab, line feed, form feed
\* and carriage return.
CharCodeOf ==
  [c \in {AsciiLow[i] : i \in 1..Len(AsciiLow)}
           \cup {AsciiHigh[i] : i \in 1..Len(AsciiHigh)}
           \cup {"\t", "\n", "\f", "\r"} |->
     IF c = "\t" THEN 9
     ELSE IF c = "\n" THEN 10
     ELSE IF c = "\f" THEN 12
     ELSE IF c = "\r" THEN 13
     ELSE IF \E i \in 1..Len(AsciiLow) : AsciiLow[i] = c
     THEN 31 + CHOOSE i \in 1..Len(AsciiLow) : AsciiLow[i] = c
     ELSE 96 + CHOOSE i \in 1..Len(AsciiHigh) : AsciiHigh[i] = c]

\* c.charCodeAt(0), for the characters of the table.
CharCode(c) == CharCodeOf[c]

FromCharCode(x) == IF x <= 95 THEN AsciiLow[x - 31] ELSE AsciiHigh[x - 96]

IsDigit(c) == c \in {"0", "1", "2", "3", "4", "5", "6", "7", "8", "9"}
IsSpace(c) == c \in {" ", "\t", "\n", "\r", "\f"}

DigitVal(c) == CharCodeOf[c] - 48

UpperOf == [c \in {AsciiHigh[i] : i \in 1..26} |-> FromCharCode(CharCodeOf[c] - 32)]
LowerOf == [c \in {AsciiLow[i] : i \in 34..59} |-> FromCharCode(CharCodeOf[c] + 32)]

ToUpperChar(c) == IF c \in DOMAIN UpperOf THEN UpperOf[c] ELSE c
ToLowerChar(c) == IF c \in DOMAIN LowerOf THEN LowerOf[c] ELSE c

\* String.prototype.toUpperCase
ToUpperCase(cs) == [i \in 1..Len(cs) |-> ToUpperChar(cs[i])]

\* How many characters from position i on satisfy Test, up to the first one
\* that does not.
RunFrom(cs, i, Test(_)) ==
  CHOOSE n \in 0..Max2(0, Len(cs) - i + 1) :
    /\ \A j \in i..(i + n - 1) : Test(cs[j])
    /\ i + n > Len(cs) \/ ~Test(cs[i + n])

\* How many characters up to the last one satisfy Test, back to the first
\* one that does not.
RunBack(cs, Test(_)) ==
  CHOOSE n \in 0..Len(cs) :
    /\ \A j \in (Len(cs) - n + 1)..Len(cs) : Test(cs[j])
    /\ n = Len(cs) \/ ~Test(cs[Len(cs) - n])

TrimStart(cs) == SubSeq(cs, RunFrom(cs, 1, IsSpace) + 1, Len(cs))
TrimEnd(cs) == SubSeq(cs, 1, Len(cs) - RunBack(cs, IsSpace))

\* String.prototype.trim
Trim(cs) == TrimEnd(TrimStart(cs))

---------------------------------------------------------------------------
(* Decimal to double *)

\* a * 10^k, by halving k
RECURSIVE BigMulPow10(_, _)
BigMulPow10(a, k) ==
  IF k <= 4 THEN BigMulSmall(a, 10 ^ k)
  ELSE LET half == BigMulPow10(a, k \div 2)
       IN IF half = <<>> THEN <<>> ELSE BigMulPow10(half, k - k \div 2)

\* floor(a / 10^k), and whether anything was left over, by halving k.
RECURSIVE BigDivPow10(_, _)
BigDivPow10(a, k) ==
  IF k <= 4
  THEN LET res == BigDivSmall(a, 10 ^ k) IN [q |-> res.q, sticky |-> res.r # 0]
  ELSE LET first == BigDivPow10(a, k \div 2)
       IN IF first.q = <<>> THEN [q |-> <<>>, sticky |-> first.sticky \/ a # <<>>]
          ELSE LET second == BigDivPow10(first.q, k - k \div 2)
               IN [q |-> second.q, sticky |-> first.sticky \/ second.sticky]

\* The bits a is shifted up by before it is divided by 10^-p, far enough
\* for the quotient to keep more than 53 bits.
DecimalShift(a, p) ==
  IF p >= 0 THEN 0 ELSE Max2(0, 65 + ((-p) * 3322) \div 1000 - BigBitLen(a))

\* floor(a * 2^shift * 10^p), and whether anything was cut off.
DecimalScaled(a, p, shift) ==
  IF p >= 0 THEN [q |-> BigMulPow10(a, p), sticky |-> FALSE]
  ELSE BigDivPow10(BigShl(a, shift), -p)

\* The double nearest to sgn * res.q / 2^shift, one more bit below saying
\* whether anything was cut off.
StickyToDouble(sgn, res, shift) ==
  RoundToDouble(sgn,
                IF res.sticky THEN BigAdd(BigShl(res.q, 1), <<1>>) ELSE BigShl(res.q, 1),
                -shift - 1)

\* The double nearest to sgn * a * 10^p, for a # 0.
BigDecimalToDouble(sgn, a, p) ==
  StickyToDouble(sgn, DecimalScaled(a, p, DecimalShift(a, p)), DecimalShift(a, p))

\* The value of a digit, the letters a to f being the digits from ten on.
HexVal(c) ==
  IF IsDigit(c) THEN DigitVal(c)
  ELSE IF c \in {"a", "b", "c", "d", "e", "f"} THEN CharCodeOf[c] - 87
  ELSE IF c \in {"A", "B", "C", "D", "E", "F"} THEN CharCodeOf[c] - 55
  ELSE 99

\* The number written by the digits ds, in radix 2^bits or, for bits = 0,
\* in radix 10.
RECURSIVE BigFromDigits(_, _)
BigFromDigits(ds, bits) ==
  IF ds = <<>> THEN <<>>
  ELSE IF Len(ds) = 1 THEN BigFromNat(HexVal(ds[1]))
  ELSE LET mid == Len(ds) \div 2
           high == BigFromDigits(SubSeq(ds, 1, mid), bits)
           low == BigFromDigits(SubSeq(ds, mid + 1, Len(ds)), bits)
       IN IF high = <<>> THEN low
          ELSE BigAdd(IF bits = 0 THEN BigMulPow10(high, Len(ds) - mid)
                      ELSE BigShl(high, bits * (Len(ds) - mid)),
                      low)

IsZeroDigit(c) == c = "0"

\* The double nearest to sgn * digits * 10^x.  A value of 10^309 or more is
\* past the largest double, one below 10^-324 is nearer to 0 than to the
\* smallest.
SignificantToDouble(sgn, ds, p) ==
  IF ds = <<>> THEN Zero(sgn)
  ELSE IF Len(ds) + p > 309 THEN Infinity(sgn)
  ELSE IF Len(ds) + p < -324 THEN Zero(sgn)
  ELSE BigDecimalToDouble(sgn, BigFromDigits(ds, 0), p)

\* digits without its lead zeros at the start and its tz zeros at the end.
StrippedToDouble(sgn, digits, x, lead, tz) ==
  SignificantToDouble(sgn, SubSeq(digits, lead + 1, Len(digits) - tz), x + tz)

DecimalToDouble(sgn, digits, x) ==
  StrippedToDouble(sgn, digits, x, RunFrom(digits, 1, IsZeroDigit),
                   IF \A i \in 1..Len(digits) : digits[i] = "0" THEN 0
                   ELSE RunBack(digits, IsZeroDigit))

---------------------------------------------------------------------------
(* Number to string *)

\* The k digits of x, for x < 10^k.
PadDigits(x, k) == [i \in 1..k |-> FromCharCode(48 + ((x \div (10 ^ (k - i))) % 10))]

NatToString(x) ==
  PadDigits(x, CHOOSE n \in 1..10 : /\ n = 10 \/ x < 10 ^ n
                                    /\ n = 1 \/ x >= 10 ^ (n - 1))

\* The k digits of a, for a < 10^k.
RECURSIVE BigDigits(_, _)
BigDigits(a, k) ==
  IF k <= 4 THEN PadDigits(BigToNat(a), k)
  ELSE LET h == k \div 2
           q == BigDivPow10(a, h).q
       IN BigDigits(q, k - h) \o BigDigits(BigSub(a, BigMulPow10(q, h)), h)

\* floor(m * 2^e * 10^t), and whether anything was cut off.
ShiftedFloor(cut, d) ==
  [q |-> BigShr(cut.q, d), sticky |-> cut.sticky \/ BigAnyBelow(cut.q, d)]

ScaledFloor(m, e, t) ==
  ShiftedFloor(BigDivPow10(BigMulPow10(BigShl(m, Max2(e, 0)), Max2(t, 0)), Max2(-t, 0)),
               Max2(-e, 0))

\* Number::toString writes a double v as the digits of an integer s of k
\* digits and a power of ten, k being as small as possible for the result
\* to read back as v, and s being the nearest to v when several will do.
\* The candidates for a given k are the two integers around v / 10^(n - k).
Digits19 == 19
Ten18 == BigMulPow10(<<1>>, 18)
Ten19 == BigMulPow10(<<1>>, 19)

\* The first k of the 19 digits in lead
LeadDigits(lead, k) == BigDivPow10(lead, Digits19 - k).q

\* The first k of the 19 digits in lead, which stand for a value with n
\* digits before the point, read back as v, or those digits plus one do.
ReadsBack(v, lead, n, k) ==
  \E c \in {0, 1} :
    BigDecimalToDouble(1, BigAdd(LeadDigits(lead, k), BigFromNat(c)), n - k) = v

RECURSIVE ShortestLength(_, _, _, _)
ShortestLength(v, lead, n, k) ==
  IF k >= 17 \/ ReadsBack(v, lead, n, k) THEN k
  ELSE ShortestLength(v, lead, n, k + 1)

\* The candidate goes up from lo to lo + 1 when lo does not read back as v;
\* when both do, the nearer to v is taken, the even one at the half.
GoesUp(reads, half, sticky, lo) ==
  IF ~reads[0] THEN TRUE
  ELSE IF ~reads[1] THEN FALSE
  ELSE IF half # 0 THEN half > 0
  ELSE IF sticky THEN TRUE
  ELSE BigIsOdd(lo)

\* The digits written: those of lo, or of lo + 1, which may be one digit
\* longer (long) and then ends in zeros.
WrittenDigits(ds, n, long) ==
  [digits |-> SubSeq(ds, 1, Len(ds) - RunBack(ds, IsZeroDigit)),
   n |-> IF long THEN n + 1 ELSE n]

ChosenDigits(lo, k, n, upper, long) ==
  WrittenDigits(BigDigits(IF upper THEN BigAdd(lo, <<1>>) ELSE lo,
                          IF long THEN k + 1 ELSE k),
                n, long)

RoundedDigits(lo, k, n, upper) ==
  ChosenDigits(lo, k, n, upper,
               upper /\ BigCmp(BigAdd(lo, <<1>>), BigMulPow10(<<1>>, k)) >= 0)

\* The k digits for v, lo being the first k of the 19 in lead.
DigitsOfLength(v, lead, n, k, lo) ==
  RoundedDigits(lo, k, n,
    GoesUp([c \in {0, 1} |-> BigDecimalToDouble(1, BigAdd(lo, BigFromNat(c)), n - k) = v],
           BigCmp(BigMulSmall(BigSub(lead.q, BigMulPow10(lo, Digits19 - k)), 2),
                  BigMulPow10(<<1>>, Digits19 - k)),
           lead.sticky, lo))

ShortestDigits(v, lead, n, k) ==
  IF k = 0 THEN [digits |-> <<>>, n |-> n]
  ELSE DigitsOfLength(v, lead, n, k, LeadDigits(lead.q, k))

\* The digits for v from its 19 leading digits.
DigitsFrom(v, lead, n) ==
  IF BigCmp(lead.q, Ten18) < 0 THEN [digits |-> <<>>, n |-> n]
  ELSE ShortestDigits(v, lead, n, ShortestLength(v, lead.q, n, 1))

\* The number of digits v has before the point: near c, the c for which
\* 19 digits start at the first digit of v.
HasLeadAt(s) == BigCmp(s, Ten18) >= 0 /\ BigCmp(s, Ten19) < 0

DecimalExponent(m, e, est) ==
  CHOOSE c \in {est - 1, est, est + 1} : HasLeadAt(ScaledFloor(m, e, Digits19 - c).q)

DecimalAt(v, n) == DigitsFrom(v, ScaledFloor(v.n.mant, v.n.exp, Digits19 - n), n)

\* The digits d1 d2 ... dk and the exponent n of a positive finite double:
\* its value reads 0.d1d2...dk * 10^n.  The 19 leading digits are worked
\* out first, then the length, then the nearer of the two candidates.
DecimalOf(v) ==
  DecimalAt(v, DecimalExponent(v.n.mant, v.n.exp,
                               ((BigBitLen(v.n.mant) + v.n.exp - 1) * 30103) \div 100000 + 1))

ZeroChars(n) == [i \in 1..n |-> "0"]

\* The notation of Number::toString for the digits cs and the exponent n.
FormatDecimal(cs, n) ==
  LET k == Len(cs)
  IN IF k <= n /\ n <= 21 THEN cs \o ZeroChars(n - k)
     ELSE IF 0 < n /\ n <= 21 THEN SubSeq(cs, 1, n) \o <<".">> \o SubSeq(cs, n + 1, k)
     ELSE IF -6 < n /\ n <= 0 THEN <<"0", ".">> \o ZeroChars(-n) \o cs
     ELSE (IF k = 1 THEN cs ELSE <<cs[1], ".">> \o SubSeq(cs, 2, k))
          \o <<"e", IF n - 1 < 0 THEN "-" ELSE "+">>
          \o NatToString(IF n - 1 < 0 THEN 1 - n ELSE n - 1)

\* The digits of m / 2^k for an odd m below 2^20 and k from 1 to 4: the
\* value has k decimal places, m * 5^k / 10^k, and no shorter digits read
\* back as it.
BinaryFraction(m, k) ==
  NatToString(m \div Pow2(k)) \o <<".">> \o PadDigits((m % Pow2(k)) * (5 ^ k), k)

FormatDigits(dec) == FormatDecimal(dec.digits, dec.n)

\* The digits of a positive finite double that is not zero.
MagnitudeToString(x) ==
  IF x.n.exp >= 0 /\ BigBitLen(x.n.mant) + x.n.exp <= 30
  THEN NatToString(BigToNat(x.n.mant) * Pow2(x.n.exp))
  ELSE IF x.n.exp \in -4..-1 /\ BigBitLen(x.n.mant) <= 20
  THEN BinaryFraction(BigToNat(x.n.mant), -x.n.exp)
  ELSE FormatDigits(DecimalOf(x))

\* String(x) for a number x
NumberToString(x) ==
  CASE x.k = "nan" -> <<"N", "a", "N">>
    [] x.k = "inf" -> IF x.n.sgn = -1
                      THEN <<"-", "I", "n", "f", "i", "n", "i", "t", "y">>
                      ELSE <<"I", "n", "f", "i", "n", "i", "t", "y">>
    [] x.k = "num" ->
         IF IsZero(x) THEN <<"0">>
         ELSE (IF x.n.sgn = -1 THEN <<"-">> ELSE <<>>)
              \o MagnitudeToString([x EXCEPT !.n.sgn = 1])

\* String(v)
StringOf(v) ==
  CASE v.k = "undef" -> <<"u", "n", "d", "e", "f", "i", "n", "e", "d">>
    [] v.k = "null" -> <<"n", "u", "l", "l">>
    [] v.k = "str" -> v.s
    [] OTHER -> NumberToString(v)

---------------------------------------------------------------------------
(* String to number: StrDecimalLiteral, and the literals of Number() *)

\* The value of the digits of an exponent, which start with no zero.  Ten
\* digits or more stand for 10^9: a string has fewer than 2^29 characters,
\* so with an exponent of 10^9 or more the digits before it, however many
\* and wherever their point is, make a value above every double or one
\* that rounds to 0 (or they are all 0), and the exponent's own value does
\* not change which.
SignificantExponent(sig) ==
  IF Len(sig) > 9 THEN 10 ^ 9 ELSE BigToNat(BigFromDigits(sig, 0))

ExponentOf(ds) == SignificantExponent(SubSeq(ds, RunFrom(ds, 1, IsZeroDigit) + 1, Len(ds)))

InfinityWord == <<"I", "n", "f", "i", "n", "i", "t", "y">>

HasWordAt(cs, i, word) ==
  i + Len(word) - 1 <= Len(cs) /\ SubSeq(cs, i, i + Len(word) - 1) = word

\* The longest StrDecimalLiteral that cs starts with: sign, then Infinity or
\* digits with an optional fraction and an optional exponent.  len is the
\* number of characters read, 0 when cs starts with no literal.  The parts
\* are read one after the other, each from where the one before ended.

\* The literal read: its digits d times 10^x, and the len characters of it.
Literal(sgn, digits, x, len) ==
  [len |-> len, value |-> DecimalToDouble(sgn, digits, x)]

\* An exponent of ne digits from position ep on, negative or not; without
\* digits the letter e and its sign are not part of the literal.
ScanExponentDigits(cs, sgn, digits, nf, q, ep, ne, negative) ==
  Literal(sgn, digits,
          (IF ne = 0 THEN 0
           ELSE IF negative THEN -ExponentOf(SubSeq(cs, ep, ep + ne - 1))
           ELSE ExponentOf(SubSeq(cs, ep, ep + ne - 1))) - nf,
          IF ne = 0 THEN q - 1 ELSE ep + ne - 1)

\* The digits of the exponent start at ep when there is the letter e.
ScanExponentSign(cs, sgn, digits, nf, q, hasE, ep) ==
  ScanExponentDigits(cs, sgn, digits, nf, q, ep,
                     IF hasE THEN RunFrom(cs, ep, IsDigit) ELSE 0,
                     ep = q + 2 /\ cs[q + 1] = "-")

\* At q the integer and fraction digits have been read.
ScanExponent(cs, sgn, digits, nf, q, hasE) ==
  ScanExponentSign(cs, sgn, digits, nf, q, hasE,
                   IF hasE /\ q + 1 <= Len(cs) /\ cs[q + 1] \in {"+", "-"}
                   THEN q + 2 ELSE q + 1)

\* ni integer digits from p on, then a dot and nf fraction digits when dot.
ScanFraction(cs, sgn, p, ni, dot, nf) ==
  IF ni = 0 /\ nf = 0 THEN [len |-> 0, value |-> NaN]
  ELSE ScanExponent(cs, sgn,
                    SubSeq(cs, p, p + ni - 1) \o SubSeq(cs, p + ni + 1, p + ni + nf),
                    nf,
                    p + ni + (IF dot THEN 1 + nf ELSE 0),
                    LET q == p + ni + (IF dot THEN 1 + nf ELSE 0)
                    IN q <= Len(cs) /\ cs[q] \in {"e", "E"})

ScanDot(cs, sgn, p, ni, dot) ==
  ScanFraction(cs, sgn, p, ni, dot, IF dot THEN RunFrom(cs, p + ni + 1, IsDigit) ELSE 0)

ScanInteger(cs, sgn, p, ni) ==
  ScanDot(cs, sgn, p, ni, p + ni <= Len(cs) /\ cs[p + ni] = ".")

\* After the sign, at p
ScanUnsigned(cs, sgn, p) ==
  IF HasWordAt(cs, p, InfinityWord)
  THEN [len |-> p + 7, value |-> Infinity(sgn)]
  ELSE ScanInteger(cs, sgn, p, RunFrom(cs, p, IsDigit))

ScanDecimal(cs) ==
  ScanUnsigned(cs,
               IF cs # <<>> /\ cs[1] = "-" THEN -1 ELSE 1,
               IF cs # <<>> /\ cs[1] \in {"+", "-"} THEN 2 ELSE 1)

\* parseFloat on a string: leading white space is skipped and the longest
\* literal at the start is read; none gives NaN.
ParseFloatString(cs) == ScanDecimal(TrimStart(cs)).value

\* parseFloat(v): the argument is converted with String first.
ParseFloat(v) == ParseFloatString(StringOf(v))

\* The bits a digit stands for in a 0x, 0o or 0b literal, 0 for any other
\* string: such a literal has no sign and at least one digit of its radix.
RadixBitsOf(cs) ==
  IF Len(cs) >= 2 /\ cs[1] = "0"
  THEN IF cs[2] \in {"x", "X"} THEN 4
       ELSE IF cs[2] \in {"o", "O"} THEN 3
       ELSE IF cs[2] \in {"b", "B"} THEN 1
       ELSE 0
  ELSE 0

\* The digits ds of a literal in radix 2^bits
RadixLiteral(ds, bits) ==
  IF ds # <<>> /\ \A i \in 1..Len(ds) : HexVal(ds[i]) < Pow2(bits)
  THEN RoundToDouble(1, BigFromDigits(ds, bits), 0)
  ELSE NaN

\* A decimal literal must be the whole string.
WholeLiteral(scan, len) == IF scan.len = len THEN scan.value ELSE NaN

\* The trimmed string t as a number
StringToNumber(t) ==
  IF t = <<>> THEN Zero(1)
  ELSE IF RadixBitsOf(t) # 0 THEN RadixLiteral(SubSeq(t, 3, Len(t)), RadixBitsOf(t))
  ELSE WholeLiteral(ScanDecimal(t), Len(t))

\* Number(v): undefined is NaN and null is 0; a string is trimmed and must
\* be a numeric literal as a whole, the empty string being 0.
NumberOf(v) ==
  CASE v.k = "undef" -> NaN
    [] v.k = "null" -> Zero(1)
    [] v.k = "str" -> StringToNumber(Trim(v.s))
    [] OTHER -> v

\* s.replace(/[^\d.-]/g, ""): all but digits, dots and minus signs go
StripNonNumeric(cs) == SelectSeq(cs, LAMBDA c : IsDigit(c) \/ c \in {".", "-"})
---------------------------------------------------------------------------
(* The $regex of GET /api/items *)

RegExpSpecials == {".", "*", "+", "?", "^", "$", "{", "}", "(", ")", "|", "[", "]", "\\"}

\* cleanName.replace(/[.*+?^${}()|[\]\\]/g, '\\$&'): every special character
\* gets a backslash, which makes it a literal in the pattern.
EscapeRegExp(cs) ==
  [i \in 1..Len(cs) |-> [esc |-> cs[i] \in RegExpSpecials, c |-> cs[i]]]

\* One pattern element against one character under the 'i' flag: an
\* escaped character is a literal, an unescaped "." is any character.
TokenMatches(tok, ch) ==
  IF tok.esc THEN tok.c = ch
  ELSE IF tok.c = "." THEN TRUE
  ELSE ToLowerChar(tok.c) = ToLowerChar(ch)

\* The pattern without its anchors: it is found anywhere in the value.
RegExpTestUnanchored(pattern, v) ==
  /\ v.k = "str"
  /\ \E k \in 0..(Len(v.s) - Len(pattern)) :
       \A i \in 1..Len(pattern) : TokenMatches(pattern[i], v.s[k + i])

\* new RegExp(`^${pattern}$`, 'i') tested on a stored field value.  A field
\* that holds no string never matches.
RegExpTest(pattern, v) ==
  /\ v.k = "str"
  /\ Len(v.s) = Len(pattern)
  /\ \A i \in 1..Len(pattern) : TokenMatches(pattern[i], v.s[i])


---------------------------------------------------------------------------
(* Bounds and request domains *)

\* Item and transaction identifiers are handed out in increasing order and
\* never reused; the bounds cap how many records are ever created.
MaxItemIds == 2
MaxTxnIds == 2

\* The most requests the server has in flight at once where requests
\* overlap.
MaxInFlight == 2

ItemIds == 1..MaxItemIds
TxnIds == 1..MaxTxnIds

Salt == <<"S", "a", "l", "t">>
saltLower == <<"s", "a", "l", "t">>
SeaSalt == <<"S", "e", "a", " ", "S", "a", "l", "t">>
Manual == <<"M", "a", "n", "u", "a", "l">>
TypeIN == <<"I", "N">>
TypeOUT == <<"O", "U", "T">>
Date1 == <<"2", "0", "2", "4", "-", "0", "1", "-", "0", "5">>
Date2 == <<"2", "0", "2", "4", "-", "0", "2", "-", "0", "1">>

\* The doubles nearest to 0.1, 0.2, 0.3 and 1e-7, and 2.5
Tenth == ParseFloatString(<<"0", ".", "1">>)
Fifth == ParseFloatString(<<"0", ".", "2">>)
ThreeTenths == ParseFloatString(<<"0", ".", "3">>)
TenMillionth == ParseFloatString(<<"1", "e", "-", "7">>)
TwoAndHalf == ParseFloatString(<<"2", ".", "5">>)

\* Bodies of POST /api/items: a name and a numeric factor.
NewItemBodies == [name : {Str(Salt), Str(SeaSalt)}, factor : {Str(<<"2", ".", "5">>)}]

\* Bodies of PUT /api/items/:id: a rename, or a body that carries no name.
ItemUpdateBodies ==
  {[name |-> Str(Salt), factor |-> Undef],
   [name |-> Str(SeaSalt), factor |-> Undef],
   [name |-> Undef, factor |-> Str(<<"2">>)]}

TxnBody(date, type, itemName, quantity, altQty) ==
  [date |-> Str(date), type |-> Str(type), itemName |-> Str(itemName),
   quantity |-> quantity, altQty |-> altQty]

\* Bodies of POST and PUT /api/transactions: a receipt without altQty under
\* an item's name, its quantity sent as a string, and an issue with altQty
\* under a name that differs from it in case only.
TxnBodies ==
  {TxnBody(Date1, TypeIN, Salt, Str(<<"2">>), Undef),
   TxnBody(Date2, TypeOUT, saltLower, Num(1), Num(3))}

---------------------------------------------------------------------------
(* Store queries *)

HasItem(I, id) == \E i \in 1..Len(I) : I[i].id = id
ItemById(I, id) == I[CHOOSE i \in 1..Len(I) : I[i].id = id]
HasTxn(T, id) == \E i \in 1..Len(T) : T[i].id = id
TxnById(T, id) == T[CHOOSE i \in 1..Len(T) : T[i].id = id]

\* Model.findById(id): the document, or null (the empty sequence).
findById(C, id) == SelectSeq(C, LAMBDA d : d.id = id)

\* Item.findByIdAndUpdate(id, body): the fields the body carries are set.
ApplyItemUpdate(item, body) ==
  [id |-> item.id,
   name |-> IF body.name = Undef THEN item.name ELSE body.name,
   factor |-> IF body.factor = Undef THEN item.factor ELSE body.factor]

\* The catalog after Item.findByIdAndUpdate(id, body).
itemsUpdated(I, id, body) ==
  [i \in 1..Len(I) |-> IF I[i].id = id THEN ApplyItemUpdate(I[i], body) ELSE I[i]]

\* An updateMany with an empty filter: every transaction is rewritten.
updateManyEvery(T, from, to) == [i \in 1..Len(T) |-> [T[i] EXCEPT !.itemName = to]]

\* Transaction.updateMany({ itemName: from }, { $set: { itemName: to } })
updateManyItemName(T, from, to) ==
  [i \in 1..Len(T) |->
     IF T[i].itemName = from THEN [T[i] EXCEPT !.itemName = to] ELSE T[i]]

\* A deleteOne in place of the deleteMany: only the first match goes.
deleteOneItemName(T, name) ==
  IF \E i \in 1..Len(T) : T[i].itemName = name
  THEN LET first == CHOOSE i \in 1..Len(T) :
                      /\ T[i].itemName = name
                      /\ \A j \in 1..(i - 1) : T[j].itemName # name
       IN SubSeq(T, 1, first - 1) \o SubSeq(T, first + 1, Len(T))
  ELSE T

\* Transaction.deleteMany({ itemName: name })
deleteManyItemName(T, name) == SelectSeq(T, LAMBDA t : t.itemName # name)

\* The number of documents an equality filter on itemName selects.
CountItemName(T, name) == Len(SelectSeq(T, LAMBDA t : t.itemName = name))

\* The cast of a Number path of the schema: undefined and null stay, ""
\* is null, any other string goes through Number(); NaN is the cast that
\* fails.
CastNumber(v) ==
  CASE v.k = "str" -> IF v.s = <<>> THEN Null ELSE NumberOf(v)
    [] OTHER -> v

\* A cast value that makes validation fail
CastFails(cast) == cast.k = "nan"

\* What JSON.stringify makes of a value: NaN and the infinities are null,
\* -0 is 0.
JsonValue(v) ==
  CASE v.k \in {"nan", "inf"} -> Null
    [] v.k = "num" -> IF IsZero(v) THEN Zero(1) ELSE v
    [] OTHER -> v

---------------------------------------------------------------------------
(* GET /api/items: the aggregation *)

\* const cleanName = item.name.trim()
cleanName(item) == Trim(item.name.s)

\* Transaction.find({ itemName: { $regex: ^cleanName$ /i } })
findTxnsOfItem(item, T) ==
  SelectSeq(T, LAMBDA t : RegExpTest(EscapeRegExp(cleanName(item)), t.itemName))

\* t.type ? t.type.toUpperCase().trim() : "IN"
normType(t) == IF Truthy(t.type) THEN Trim(ToUpperCase(t.type.s)) ELSE TypeIN

\* parseFloat(t.quantity) || 0
qtyOf(t) == OrElse(ParseFloat(t.quantity), Num(0))

\* rawAlt = t.altQty || t.altQuantity || "0" (the schema has no altQuantity
\* path, so a document never carries one); String(rawAlt) is stripped of
\* all but digits, dots and minus signs, and the rest is parsed.
rawAltOf(t) == OrElse(OrElse(t.altQty, Undef), Str(<<"0">>))
cleanAltOf(t) == StripNonNumeric(StringOf(rawAltOf(t)))
altValOf(t) == OrElse(ParseFloatString(cleanAltOf(t)), Num(0))

\* The branch of the reduce callback, lines 70-76, on the constants type,
\* qty and altVal of lines 62-68.
accumulate(acc, type, qty, altVal) ==
  IF type = TypeIN
  THEN [primary |-> Plus(acc.primary, qty), alt |-> Plus(acc.alt, altVal)]
  ELSE [primary |-> Minus(acc.primary, qty), alt |-> Minus(acc.alt, altVal)]

\* The reduce callback.
reduceStep(acc, t) == accumulate(acc, normType(t), qtyOf(t), altValOf(t))

RECURSIVE reduceFrom(_, _)
reduceFrom(ts, acc) ==
  IF ts = <<>> THEN acc ELSE reduceFrom(Tail(ts), reduceStep(acc, Head(ts)))

\* txns.reduce(callback, { primary: 0, alt: 0 })
reduceStats(ts) == reduceFrom(ts, [primary |-> Num(0), alt |-> Num(0)])

\* The backup calculation: a zero alt sum with stock on hand is replaced by
\* primary * factor when the factor parses as a number.
backupWithFactor(stats, f) ==
  IF f.k # "nan" THEN [stats EXCEPT !.alt = Times(stats.primary, f)] ELSE stats

backupCalculation(stats, item) ==
  IF StrictEquals(stats.alt, Num(0)) /\ ~StrictEquals(stats.primary, Num(0))
     /\ Truthy(item.factor)
  THEN backupWithFactor(stats, ParseFloat(item.factor))
  ELSE stats

\* The object the map callback returns, lines 91-96.
itemWithStats(item, stats) ==
  [id |-> item.id, name |-> item.name, factor |-> item.factor,
   quantity |-> stats.primary, altQuantity |-> stats.alt]

\* One element of itemsWithQty.
itemWithQty(item, T) ==
  itemWithStats(item, backupCalculation(reduceStats(findTxnsOfItem(item, T)), item))

\* res.json(itemsWithQty): the quantities as JSON carries them.
itemsJson(rs) ==
  [i \in 1..Len(rs) |->
     [rs[i] EXCEPT !.quantity = JsonValue(rs[i].quantity),
                   !.altQuantity = JsonValue(rs[i].altQuantity)]]

\* The listing of a catalog over a ledger that does not change meanwhile.
itemsWithQty(I, T) == [i \in 1..Len(I) |-> itemWithQty(I[i], T)]

---------------------------------------------------------------------------
(* GET /api/transactions: sort({ date: -1 }) *)

RECURSIVE StrLess(_, _)
StrLess(a, b) ==
  IF b = <<>> THEN FALSE
  ELSE IF a = <<>> THEN TRUE
  ELSE IF Head(a) = Head(b) THEN StrLess(Tail(a), Tail(b))
  ELSE CharCode(Head(a)) < CharCode(Head(b))

RECURSIVE insertByDateDesc(_, _)
insertByDateDesc(t, sorted) ==
  IF sorted = <<>> THEN <<t>>
  ELSE IF StrLess(Head(sorted).date.s, t.date.s) THEN <<t>> \o sorted
  ELSE <<Head(sorted)>> \o insertByDateDesc(t, Tail(sorted))

RECURSIVE sortFrom(_, _)
sortFrom(ts, sorted) ==
  IF ts = <<>> THEN sorted
  ELSE sortFrom(Tail(ts), insertByDateDesc(Head(ts), sorted))

\* Newest date first; documents of one date keep their storage order.
sortByDateDesc(T) == sortFrom(T, <<>>)

\* res.json of transaction documents.
txnsJson(ts) ==
  [i \in 1..Len(ts) |->
     [ts[i] EXCEPT !.quantity = JsonValue(ts[i].quantity),
                   !.altQty = JsonValue(ts[i].altQty)]]

---------------------------------------------------------------------------
(* Requests and responses *)

\* A request in flight or answered: op names the route, pc the store call
\* the handler waits for ("done" once it has answered), id and body are the
\* request's, and the rest are the handler's locals: found is what its
\* first query returned (a sequence of documents, empty for null), updated
\* what findByIdAndUpdate returned, results and order the slots of
\* Promise.all and the order in which they were filled, n the number of
\* transactions its cascade selected.
NoReq ==
  [op |-> "none", pc |-> "idle", id |-> 0, body |-> Undef, found |-> <<>>,
   updated |-> <<>>, results |-> <<>>, order |-> <<>>, n |-> 0]

Request(op, id, body) == [NoReq EXCEPT !.op = op, !.id = id, !.body = body]

\* The last response sent: the route, the status, the request as it stood
\* when the handler answered, and the documents of the body.
Response(op, status, req, body) ==
  [op |-> op, status |-> status, req |-> req, body |-> body]

NoResponse == Response("none", 0, NoReq, <<>>)

\* The result slot of an aggregation that has not completed.
NoResult ==
  [id |-> 0, name |-> Undef, factor |-> Undef,
   quantity |-> Num(0), altQuantity |-> Num(0)]

Idle(r) == reqs[r].pc \in {"idle", "done"}

\* Connection r takes the next request: it is the first one that is free.
Free(r) ==
  /\ r \in 1..Len(reqs)
  /\ Idle(r)
  /\ \A q \in 1..(r - 1) : ~Idle(q)

\* The handler on connection r waits for the store call pc of route op.
InFlight(r, op, pc) ==
  /\ r \in 1..Len(reqs)
  /\ reqs[r].op = op
  /\ reqs[r].pc = pc

\* The handler on connection r goes on to await the store call pc.
Awaits(r, req, pc) ==
  /\ reqs' = [reqs EXCEPT ![r] = [req EXCEPT !.pc = pc]]
  /\ resp' = resp

\* The handler on connection r sends its response and returns.
Answers(r, req, status, body) ==
  /\ reqs' = [reqs EXCEPT ![r] = [req EXCEPT !.pc = "done"]]
  /\ resp' = Response(req.op, status, [req EXCEPT !.pc = "done"], body)

\* No request is in flight.
Quiet == \A r \in 1..Len(reqs) : Idle(r)

---------------------------------------------------------------------------
(* The route handlers of src/index.js, lines 48-166, one action per store *)
(* call.  The parameter fail names the store call that rejects ("none":    *)
(* the call succeeds); a rejected call changes nothing in the store and    *)
(* sends the handler to its catch clause.                                  *)

\* The store is empty and connections wait for requests, one at a time on
\* each.
InitWith(connections) ==
  /\ items = <<>>
  /\ txns = <<>>
  /\ nextItemId = 1
  /\ nextTxnId = 1
  /\ resp = NoResponse
  /\ reqs = [r \in 1..connections |-> NoReq]

Init == InitWith(1)

\* The result lands in the slot after the last one filled, as a push in
\* completion order would place it.
placeResultByCompletion(results, order, i, result) ==
  [results EXCEPT ![Len(order) + 1] = result]

\* Promise.all keeps the result of the i-th promise in the i-th slot.
placeResult(results, order, i, result) == [results EXCEPT ![i] = result]

Completed(req, i) == \E k \in 1..Len(req.order) : req.order[k] = i

\* The request once the i-th aggregation has returned result.
placedResult(req, i, result) ==
  [req EXCEPT !.results = placeResult(req.results, req.order, i, result),
              !.order = Append(req.order, i)]

\* Promise.all resolves with the last result, and res.json sends them all.
ListItemsPlaced(r, placed) ==
  IF Len(placed.order) = Len(placed.found)
  THEN Answers(r, placed, 200, itemsJson(placed.results))
  ELSE Awaits(r, placed, "Transaction.find")

\* GET /api/items, line 50: Item.find resolves and items.map starts one
\* aggregation per item, each with its Transaction.find pending.
\* item.name.trim() throws when a name is not a string, and Promise.all of
\* no item resolves at once.
ListItemsFind(r, fail) ==
  /\ Free(r)
  /\ fail \in {"none", "Item.find"}
  /\ LET req == [Request("listItems", 0, Undef) EXCEPT
                   !.found = items,
                   !.results = [i \in 1..Len(items) |-> NoResult]]
     IN IF fail # "none"
        THEN Answers(r, Request("listItems", 0, Undef), 500, <<>>)
        ELSE IF \E i \in 1..Len(items) : items[i].name.k # "str"
        THEN Answers(r, req, 500, <<>>)
        ELSE IF items = <<>>
        THEN Answers(r, req, 200, <<>>)
        ELSE Awaits(r, req, "Transaction.find")
  /\ UNCHANGED <<items, txns, nextItemId, nextTxnId>>

\* The aggregation step that also removes the transactions it matched.
ListItemsAggregateConsuming(r, i, fail) ==
  /\ InFlight(r, "listItems", "Transaction.find")
  /\ i \in 1..Len(reqs[r].found)
  /\ ~Completed(reqs[r], i)
  /\ fail \in {"none", "Transaction.find"}
  /\ IF fail # "none"
     THEN /\ Answers(r, reqs[r], 500, <<>>)
          /\ txns' = txns
     ELSE /\ ListItemsPlaced(r, placedResult(reqs[r], i, itemWithQty(reqs[r].found[i], txns)))
          /\ txns' = SelectSeq(txns, LAMBDA t :
                       ~RegExpTest(EscapeRegExp(cleanName(reqs[r].found[i])),
                                   t.itemName))
  /\ UNCHANGED <<items, nextItemId, nextTxnId>>

\* GET /api/items, lines 56-99: the Transaction.find of the i-th
\* aggregation resolves, and its reduce and backup calculation run without
\* yielding.  The first find that rejects sends the handler to its catch
\* clause; when the last result is in, Promise.all resolves and res.json
\* sends the results.
ListItemsAggregate(r, i, fail) ==
  /\ InFlight(r, "listItems", "Transaction.find")
  /\ i \in 1..Len(reqs[r].found)
  /\ ~Completed(reqs[r], i)
  /\ fail \in {"none", "Transaction.find"}
  /\ IF fail # "none"
     THEN Answers(r, reqs[r], 500, <<>>)
     ELSE ListItemsPlaced(r, placedResult(reqs[r], i, itemWithQty(reqs[r].found[i], txns)))
  /\ UNCHANGED <<items, txns, nextItemId, nextTxnId>>

\* POST /api/items: the saved document is returned with quantity 0 and
\* altQuantity 0.
CreateItem(r, body, fail) ==
  /\ Free(r)
  /\ fail \in {"none", "save"}
  /\ nextItemId <= MaxItemIds
  /\ LET req == Request("createItem", nextItemId, body)
         saved == [id |-> nextItemId, name |-> body.name, factor |-> body.factor]
     IN IF fail = "none"
        THEN /\ items' = Append(items, saved)
             /\ nextItemId' = nextItemId + 1
             /\ Answers(r, req, 200,
                        <<[id |-> saved.id, name |-> saved.name,
                           factor |-> saved.factor,
                           quantity |-> Num(0), altQuantity |-> Num(0)]>>)
        ELSE /\ UNCHANGED <<items, nextItemId>>
             /\ Answers(r, req, 400, <<>>)
  /\ UNCHANGED <<txns, nextTxnId>>

\* PUT /api/items/:id, line 117: const oldItem = await Item.findById(id)
RenameFindById(r, id, body, fail) ==
  /\ Free(r)
  /\ fail \in {"none", "findById"}
  /\ LET req == Request("renameOrUpdateItem", id, body)
     IN IF fail # "none"
        THEN Answers(r, req, 400, <<>>)
        ELSE Awaits(r, [req EXCEPT !.found = findById(items, id)],
                    "findByIdAndUpdate")
  /\ UNCHANGED <<items, txns, nextItemId, nextTxnId>>

\* PUT /api/items/:id, lines 118-124: const updatedItem = await
\* Item.findByIdAndUpdate(id, body, { new: true }).  When oldItem is null or
\* carries the submitted name the handler answers at once; with no item of
\* that id now, updatedItem is null and reading updatedItem._doc throws.
RenameFindByIdAndUpdate(r, fail) ==
  /\ InFlight(r, "renameOrUpdateItem", "findByIdAndUpdate")
  /\ fail \in {"none", "findByIdAndUpdate"}
  /\ LET req == reqs[r]
         updated == findById(itemsUpdated(items, req.id, req.body), req.id)
         cascade == req.found # <<>> /\ req.found[1].name # req.body.name
         now == [req EXCEPT !.updated = updated]
     IN IF fail # "none"
        THEN /\ items' = items
             /\ Answers(r, req, 400, <<>>)
        ELSE /\ items' = itemsUpdated(items, req.id, req.body)
             /\ IF cascade THEN Awaits(r, now, "updateMany")
                ELSE IF updated = <<>> THEN Answers(r, now, 400, <<>>)
                ELSE Answers(r, now, 200, updated)
  /\ UNCHANGED <<txns, nextItemId, nextTxnId>>

\* The bulk rewrite that, when it rejects, puts the item's old fields back.
RenameUpdateManyRollingBack(r, undefinedAs, fail) ==
  /\ InFlight(r, "renameOrUpdateItem", "updateMany")
  /\ fail \in {"none", "updateMany"}
  /\ undefinedAs \in {"omit", "null"}
  /\ LET req == reqs[r]
         oldName == req.found[1].name
         to == IF req.body.name = Undef THEN Null ELSE req.body.name
         now == [req EXCEPT !.n = CountItemName(txns, oldName)]
     IN /\ req.body.name # Undef => undefinedAs = "omit"
        /\ IF fail # "none"
           THEN /\ txns' = txns
                /\ items' = [i \in 1..Len(items) |->
                               IF items[i].id = req.id THEN req.found[1]
                               ELSE items[i]]
                /\ Answers(r, now, 400, <<>>)
           ELSE /\ txns' = IF req.body.name = Undef /\ undefinedAs = "omit"
                           THEN txns
                           ELSE updateManyItemName(txns, oldName, to)
                /\ items' = items
                /\ IF req.updated = <<>> THEN Answers(r, now, 400, <<>>)
                   ELSE Answers(r, now, 200, req.updated)
  /\ UNCHANGED <<nextItemId, nextTxnId>>

\* PUT /api/items/:id, lines 122-124: await Transaction.updateMany(
\* { itemName: oldItem.name }, { $set: { itemName: req.body.name } }), then
\* the answer with updatedItem.  undefinedAs is what the installed mongoose
\* does with $set { itemName: undefined } when the body carries no name: it
\* drops the key ("omit") or stores null ("null").
RenameUpdateMany(r, undefinedAs, fail) ==
  /\ InFlight(r, "renameOrUpdateItem", "updateMany")
  /\ fail \in {"none", "updateMany"}
  /\ undefinedAs \in {"omit", "null"}
  /\ LET req == reqs[r]
         oldName == req.found[1].name
         to == IF req.body.name = Undef THEN Null ELSE req.body.name
         now == [req EXCEPT !.n = CountItemName(txns, oldName)]
     IN /\ req.body.name # Undef => undefinedAs = "omit"
        /\ IF fail # "none"
           THEN /\ txns' = txns
                /\ Answers(r, now, 400, <<>>)
           ELSE /\ txns' = IF req.body.name = Undef /\ undefinedAs = "omit"
                           THEN txns
                           ELSE updateManyItemName(txns, oldName, to)
                /\ IF req.updated = <<>> THEN Answers(r, now, 400, <<>>)
                   ELSE Answers(r, now, 200, req.updated)
  /\ UNCHANGED <<items, nextItemId, nextTxnId>>

\* DELETE /api/items/:id, line 130: const item = await Item.findById(id);
\* an unknown id skips the cascade and answers with the success message.
DeleteFindById(r, id, fail) ==
  /\ Free(r)
  /\ fail \in {"none", "findById"}
  /\ LET req == Request("deleteItem", id, Undef)
         now == [req EXCEPT !.found = findById(items, id)]
     IN IF fail # "none" THEN Answers(r, req, 500, <<>>)
        ELSE IF now.found = <<>> THEN Answers(r, now, 200, <<>>)
        ELSE Awaits(r, now, "deleteMany")
  /\ UNCHANGED <<items, txns, nextItemId, nextTxnId>>

\* DELETE /api/items/:id, line 132:
\* await Transaction.deleteMany({ itemName: item.name })
DeleteDeleteMany(r, fail) ==
  /\ InFlight(r, "deleteItem", "deleteMany")
  /\ fail \in {"none", "deleteMany"}
  /\ LET req == reqs[r]
         name == req.found[1].name
         now == [req EXCEPT !.n = CountItemName(txns, name)]
     IN IF fail # "none"
        THEN /\ txns' = txns
             /\ Answers(r, now, 500, <<>>)
        ELSE /\ txns' = deleteManyItemName(txns, name)
             /\ Awaits(r, now, "findByIdAndDelete")
  /\ UNCHANGED <<items, nextItemId, nextTxnId>>

\* DELETE /api/items/:id, lines 133-135: await Item.findByIdAndDelete(id),
\* then the success message.
DeleteFindByIdAndDelete(r, fail) ==
  /\ InFlight(r, "deleteItem", "findByIdAndDelete")
  /\ fail \in {"none", "findByIdAndDelete"}
  /\ IF fail # "none"
     THEN /\ items' = items
          /\ Answers(r, reqs[r], 500, <<>>)
     ELSE /\ items' = SelectSeq(items, LAMBDA it : it.id # reqs[r].id)
          /\ Answers(r, reqs[r], 200, <<>>)
  /\ UNCHANGED <<txns, nextItemId, nextTxnId>>

\* GET /api/transactions
ListTransactions(r, fail) ==
  /\ Free(r)
  /\ fail \in {"none", "find"}
  /\ IF fail = "none"
     THEN Answers(r, Request("listTransactions", 0, Undef), 200,
                  txnsJson(sortByDateDesc(txns)))
     ELSE Answers(r, Request("listTransactions", 0, Undef), 500, <<>>)
  /\ UNCHANGED <<items, txns, nextItemId, nextTxnId>>

\* new Transaction(body): the document as the schema casts it.
newTransaction(id, body) ==
  [id |-> id, date |-> body.date, type |-> body.type, itemName |-> body.itemName,
   quantity |-> CastNumber(body.quantity), altQty |-> CastNumber(body.altQty)]

\* The validation of save and of findByIdAndUpdate rejects a document with
\* a quantity or altQty that did not cast to a number.
ValidationFails(cast) == CastFails(cast.quantity) \/ CastFails(cast.altQty)

\* await newTxn.save(), and the answer with the saved document.
saveTransaction(r, req, newTxn, fail) ==
  IF fail = "none" /\ ~ValidationFails(newTxn)
  THEN /\ txns' = Append(txns, newTxn)
       /\ nextTxnId' = nextTxnId + 1
       /\ Answers(r, req, 200, txnsJson(<<newTxn>>))
  ELSE /\ UNCHANGED <<txns, nextTxnId>>
       /\ Answers(r, req, 400, <<>>)

\* POST /api/transactions: the body is saved as the schema casts it.
CreateTransaction(r, body, fail) ==
  /\ Free(r)
  /\ fail \in {"none", "save"}
  /\ nextTxnId <= MaxTxnIds
  /\ saveTransaction(r, Request("createTransaction", nextTxnId, body),
                     newTransaction(nextTxnId, body), fail)
  /\ UNCHANGED <<items, nextItemId>>

\* POST /api/transactions, lines 148-149: the request has arrived and the
\* handler has called save(), which the store has yet to run.
CreateTransactionBegin(r, body) ==
  /\ Free(r)
  /\ Awaits(r, Request("createTransaction", 0, body), "save")
  /\ UNCHANGED <<items, txns, nextItemId, nextTxnId>>

\* POST /api/transactions, lines 149-150: the store runs the save, and the
\* handler answers.
CreateTransactionSave(r, fail) ==
  /\ InFlight(r, "createTransaction", "save")
  /\ fail \in {"none", "save"}
  /\ nextTxnId <= MaxTxnIds
  /\ saveTransaction(r, [reqs[r] EXCEPT !.id = nextTxnId],
                     newTransaction(nextTxnId, reqs[r].body), fail)
  /\ UNCHANGED <<items, nextItemId>>

\* The update document of findByIdAndUpdate as the schema casts it.
castUpdate(body) ==
  [body EXCEPT !.quantity = CastNumber(body.quantity),
               !.altQty = CastNumber(body.altQty)]

\* Transaction.findByIdAndUpdate(id, body, { new: true }): the fields the
\* update carries are set.
ApplyTxnUpdate(t, cast) ==
  [id |-> t.id,
   date |-> IF cast.date = Undef THEN t.date ELSE cast.date,
   type |-> IF cast.type = Undef THEN t.type ELSE cast.type,
   itemName |-> IF cast.itemName = Undef THEN t.itemName ELSE cast.itemName,
   quantity |-> IF cast.quantity = Undef THEN t.quantity ELSE cast.quantity,
   altQty |-> IF cast.altQty = Undef THEN t.altQty ELSE cast.altQty]

\* The ledger after Transaction.findByIdAndUpdate(id, body).
txnsUpdated(T, id, body) ==
  [i \in 1..Len(T) |->
     IF T[i].id = id THEN ApplyTxnUpdate(T[i], castUpdate(body)) ELSE T[i]]

\* The ledger is T after the update: with no transaction of that id,
\* updatedTxn is null and reading updatedTxn._doc throws.
updateAnswered(r, req, T) ==
  /\ txns' = T
  /\ IF findById(T, req.id) = <<>>
     THEN Answers(r, [req EXCEPT !.found = findById(txns, req.id)], 400, <<>>)
     ELSE Answers(r, [req EXCEPT !.found = findById(txns, req.id),
                                 !.updated = findById(T, req.id)],
                  200, txnsJson(findById(T, req.id)))

\* await Transaction.findByIdAndUpdate(id, body, { new: true })
updateTransaction(r, req, cast, fail) ==
  IF fail = "none" /\ ~ValidationFails(cast)
  THEN updateAnswered(r, req,
                      [i \in 1..Len(txns) |->
                         IF txns[i].id = req.id THEN ApplyTxnUpdate(txns[i], cast)
                         ELSE txns[i]])
  ELSE /\ txns' = txns
       /\ Answers(r, req, 400, <<>>)

\* PUT /api/transactions/:id
UpdateTransaction(r, id, body, fail) ==
  /\ Free(r)
  /\ fail \in {"none", "findByIdAndUpdate"}
  /\ updateTransaction(r, Request("updateTransaction", id, body), castUpdate(body), fail)
  /\ UNCHANGED <<items, nextItemId, nextTxnId>>

\* DELETE /api/transactions/:id: answers with the success message whether
\* or not a transaction was removed.
DeleteTransaction(r, id, fail) ==
  /\ Free(r)
  /\ fail \in {"none", "findByIdAndDelete"}
  /\ LET req == [Request("deleteTransaction", id, Undef) EXCEPT
                   !.found = findById(txns, id)]
     IN IF fail = "none"
        THEN /\ txns' = SelectSeq(txns, LAMBDA t : t.id # id)
             /\ Answers(r, req, 200, <<>>)
        ELSE /\ txns' = txns
             /\ Answers(r, Request("deleteTransaction", id, Undef), 500, <<>>)
  /\ UNCHANGED <<items, nextItemId, nextTxnId>>

\* Every store call succeeds.
ListItemsFindStep == \E r \in 1..Len(reqs) : ListItemsFind(r, "none")
ListItemsAggregateStep ==
  \E r \in 1..Len(reqs), i \in ItemIds : ListItemsAggregate(r, i, "none")
CreateItemStep ==
  \E r \in 1..Len(reqs), body \in NewItemBodies : CreateItem(r, body, "none")
RenameFindByIdStep ==
  \E r \in 1..Len(reqs), id \in ItemIds, body \in ItemUpdateBodies :
    RenameFindById(r, id, body, "none")
RenameFindByIdAndUpdateStep ==
  \E r \in 1..Len(reqs) : RenameFindByIdAndUpdate(r, "none")
RenameUpdateManyStep == \E r \in 1..Len(reqs) : RenameUpdateMany(r, "omit", "none")
DeleteFindByIdStep ==
  \E r \in 1..Len(reqs), id \in ItemIds : DeleteFindById(r, id, "none")
DeleteDeleteManyStep == \E r \in 1..Len(reqs) : DeleteDeleteMany(r, "none")
DeleteFindByIdAndDeleteStep ==
  \E r \in 1..Len(reqs) : DeleteFindByIdAndDelete(r, "none")
ListTransactionsStep == \E r \in 1..Len(reqs) : ListTransactions(r, "none")
CreateTransactionStep ==
  \E r \in 1..Len(reqs), body \in TxnBodies : CreateTransaction(r, body, "none")
UpdateTransactionStep ==
  \E r \in 1..Len(reqs), id \in TxnIds, body \in TxnBodies :
    UpdateTransaction(r, id, body, "none")
DeleteTransactionStep ==
  \E r \in 1..Len(reqs), id \in TxnIds : DeleteTransaction(r, id, "none")

Next ==
  \/ ListItemsFindStep
  \/ ListItemsAggregateStep
  \/ CreateItemStep
  \/ RenameFindByIdStep
  \/ RenameFindByIdAndUpdateStep
  \/ RenameUpdateManyStep
  \/ DeleteFindByIdStep
  \/ DeleteDeleteManyStep
  \/ DeleteFindByIdAndDeleteStep
  \/ ListTransactionsStep
  \/ CreateTransactionStep
  \/ UpdateTransactionStep
  \/ DeleteTransactionStep

\* One connection: the requests reach the server one after the other.
Spec == Init /\ [][Next]_vars

\* The cascading handlers with store calls that may reject.
RenameFindByIdAnyStep ==
  \E r \in 1..Len(reqs), id \in ItemIds, body \in ItemUpdateBodies,
     fail \in {"none", "findById"} :
    RenameFindById(r, id, body, fail)
RenameFindByIdAndUpdateAnyStep ==
  \E r \in 1..Len(reqs), fail \in {"none", "findByIdAndUpdate"} :
    RenameFindByIdAndUpdate(r, fail)
RenameUpdateManyAnyStep ==
  \E r \in 1..Len(reqs), fail \in {"none", "updateMany"} :
    RenameUpdateMany(r, "omit", fail)
DeleteFindByIdAnyStep ==
  \E r \in 1..Len(reqs), id \in ItemIds, fail \in {"none", "findById"} :
    DeleteFindById(r, id, fail)
DeleteDeleteManyAnyStep ==
  \E r \in 1..Len(reqs), fail \in {"none", "deleteMany"} :
    DeleteDeleteMany(r, fail)
DeleteFindByIdAndDeleteAnyStep ==
  \E r \in 1..Len(reqs), fail \in {"none", "findByIdAndDelete"} :
    DeleteFindByIdAndDelete(r, fail)

NextFail ==
  \/ CreateItemStep
  \/ CreateTransactionStep
  \/ RenameFindByIdAnyStep
  \/ RenameFindByIdAndUpdateAnyStep
  \/ RenameUpdateManyAnyStep
  \/ DeleteFindByIdAnyStep
  \/ DeleteDeleteManyAnyStep
  \/ DeleteFindByIdAndDeleteAnyStep
  \/ ListItemsFindStep
  \/ ListItemsAggregateStep

SpecFail == Init /\ [][NextFail]_vars

\* PUT /api/items/:id with either treatment of $set { itemName: undefined }
\* by the installed mongoose.
RenameUpdateManyEitherStep ==
  \E r \in 1..Len(reqs), undefinedAs \in {"omit", "null"} :
    RenameUpdateMany(r, undefinedAs, "none")

NextUndef ==
  \/ CreateItemStep
  \/ CreateTransactionStep
  \/ RenameFindByIdStep
  \/ RenameFindByIdAndUpdateStep
  \/ RenameUpdateManyEitherStep
  \/ ListItemsFindStep
  \/ ListItemsAggregateStep

SpecUndef == Init /\ [][NextUndef]_vars

---------------------------------------------------------------------------
(* The later PUT and DELETE /api/items/:id of src/index.js, lines 265-288:
   an unknown id answers 404 before any write, and the DELETE removes the
   item before its transactions *)

\* PUT /api/items/:id, lines 267-270: const oldItem = await
\* Item.findById(id), 404 when there is none, const oldName = oldItem.name.
RenameCheckedFindById(r, id, body, fail) ==
  /\ Free(r)
  /\ fail \in {"none", "findById"}
  /\ LET req == Request("renameOrUpdateItemChecked", id, body)
         now == [req EXCEPT !.found = findById(items, id)]
     IN IF fail # "none" THEN Answers(r, req, 400, <<>>)
        ELSE IF now.found = <<>> THEN Answers(r, now, 404, <<>>)
        ELSE Awaits(r, now, "findByIdAndUpdate")
  /\ UNCHANGED <<items, txns, nextItemId, nextTxnId>>

\* PUT /api/items/:id, lines 271-272 and 275: const updatedItem = await
\* Item.findByIdAndUpdate(id, body, { new: true }).  With oldName the
\* submitted name the handler answers at once; with no item of that id now,
\* updatedItem is null and reading updatedItem._doc throws.
RenameCheckedFindByIdAndUpdate(r, fail) ==
  /\ InFlight(r, "renameOrUpdateItemChecked", "findByIdAndUpdate")
  /\ fail \in {"none", "findByIdAndUpdate"}
  /\ LET req == reqs[r]
         updated == findById(itemsUpdated(items, req.id, req.body), req.id)
         now == [req EXCEPT !.updated = updated]
     IN IF fail # "none"
        THEN /\ items' = items
             /\ Answers(r, req, 400, <<>>)
        ELSE /\ items' = itemsUpdated(items, req.id, req.body)
             /\ IF req.found[1].name # req.body.name
                THEN Awaits(r, now, "updateMany")
                ELSE IF updated = <<>> THEN Answers(r, now, 400, <<>>)
                ELSE Answers(r, now, 200, updated)
  /\ UNCHANGED <<txns, nextItemId, nextTxnId>>

\* PUT /api/items/:id, lines 273-275: await Transaction.updateMany(
\* { itemName: oldName }, { $set: { itemName: newName } }), then the answer
\* with updatedItem.  undefinedAs is what the installed mongoose does with
\* $set { itemName: undefined }: it drops the key ("omit") or stores null
\* ("null").
RenameCheckedUpdateMany(r, undefinedAs, fail) ==
  /\ InFlight(r, "renameOrUpdateItemChecked", "updateMany")
  /\ fail \in {"none", "updateMany"}
  /\ undefinedAs \in {"omit", "null"}
  /\ LET req == reqs[r]
         oldName == req.found[1].name
         to == IF req.body.name = Undef THEN Null ELSE req.body.name
         now == [req EXCEPT !.n = CountItemName(txns, oldName)]
     IN /\ req.body.name # Undef => undefinedAs = "omit"
        /\ IF fail # "none"
           THEN /\ txns' = txns
                /\ Answers(r, now, 400, <<>>)
           ELSE /\ txns' = IF req.body.name = Undef /\ undefinedAs = "omit"
                           THEN txns
                           ELSE updateManyItemName(txns, oldName, to)
                /\ IF req.updated = <<>> THEN Answers(r, now, 400, <<>>)
                   ELSE Answers(r, now, 200, req.updated)
  /\ UNCHANGED <<items, nextItemId, nextTxnId>>

\* DELETE /api/items/:id, lines 281-283: const item = await
\* Item.findById(id), 404 when there is none, const itemName = item.name.
DeleteFirstFindById(r, id, fail) ==
  /\ Free(r)
  /\ fail \in {"none", "findById"}
  /\ LET req == Request("deleteItemFirst", id, Undef)
         now == [req EXCEPT !.found = findById(items, id)]
     IN IF fail # "none" THEN Answers(r, req, 500, <<>>)
        ELSE IF now.found = <<>> THEN Answers(r, now, 404, <<>>)
        ELSE Awaits(r, now, "findByIdAndDelete")
  /\ UNCHANGED <<items, txns, nextItemId, nextTxnId>>

\* DELETE /api/items/:id, line 284: await Item.findByIdAndDelete(id)
DeleteFirstFindByIdAndDelete(r, fail) ==
  /\ InFlight(r, "deleteItemFirst", "findByIdAndDelete")
  /\ fail \in {"none", "findByIdAndDelete"}
  /\ IF fail # "none"
     THEN /\ items' = items
          /\ Answers(r, reqs[r], 500, <<>>)
     ELSE /\ items' = SelectSeq(items, LAMBDA it : it.id # reqs[r].id)
          /\ Awaits(r, reqs[r], "deleteMany")
  /\ UNCHANGED <<txns, nextItemId, nextTxnId>>

\* The step with the name read again from the catalog now that the item is
\* gone: there is none, and no transaction is removed.
DeleteFirstDeleteManyNameReadLate(r, fail) ==
  /\ InFlight(r, "deleteItemFirst", "deleteMany")
  /\ fail \in {"none", "deleteMany"}
  /\ LET req == reqs[r]
         late == findById(items, req.id)
     IN IF fail # "none"
        THEN /\ txns' = txns
             /\ Answers(r, req, 500, <<>>)
        ELSE /\ txns' = IF late = <<>> THEN txns
                        ELSE deleteManyItemName(txns, late[1].name)
             /\ Answers(r, req, 200, <<>>)
  /\ UNCHANGED <<items, nextItemId, nextTxnId>>

\* DELETE /api/items/:id, lines 285-286:
\* await Transaction.deleteMany({ itemName: itemName }), then the success
\* message.
DeleteFirstDeleteMany(r, fail) ==
  /\ InFlight(r, "deleteItemFirst", "deleteMany")
  /\ fail \in {"none", "deleteMany"}
  /\ LET req == reqs[r]
         itemName == req.found[1].name
         now == [req EXCEPT !.n = CountItemName(txns, itemName)]
     IN IF fail # "none"
        THEN /\ txns' = txns
             /\ Answers(r, now, 500, <<>>)
        ELSE /\ txns' = deleteManyItemName(txns, itemName)
             /\ Answers(r, now, 200, <<>>)
  /\ UNCHANGED <<items, nextItemId, nextTxnId>>

RenameCheckedFindByIdAnyStep ==
  \E r \in 1..Len(reqs), id \in ItemIds, body \in ItemUpdateBodies,
     fail \in {"none", "findById"} :
    RenameCheckedFindById(r, id, body, fail)
RenameCheckedFindByIdAndUpdateAnyStep ==
  \E r \in 1..Len(reqs), fail \in {"none", "findByIdAndUpdate"} :
    RenameCheckedFindByIdAndUpdate(r, fail)
RenameCheckedUpdateManyAnyStep ==
  \E r \in 1..Len(reqs), fail \in {"none", "updateMany"} :
    RenameCheckedUpdateMany(r, "omit", fail)
DeleteFirstFindByIdAnyStep ==
  \E r \in 1..Len(reqs), id \in ItemIds, fail \in {"none", "findById"} :
    DeleteFirstFindById(r, id, fail)
DeleteFirstFindByIdAndDeleteAnyStep ==
  \E r \in 1..Len(reqs), fail \in {"none", "findByIdAndDelete"} :
    DeleteFirstFindByIdAndDelete(r, fail)
DeleteFirstDeleteManyAnyStep ==
  \E r \in 1..Len(reqs), fail \in {"none", "deleteMany"} :
    DeleteFirstDeleteMany(r, fail)

\* The PUT and DELETE /api/items/:id of both servers of src/index.js (lines
\* 115-137 and 265-288), with store calls that may reject, over the items
\* and transactions the POST routes of lines 107-113 and 146-152 store.
NextRetry ==
  \/ CreateItemStep
  \/ CreateTransactionStep
  \/ RenameFindByIdAnyStep
  \/ RenameFindByIdAndUpdateAnyStep
  \/ RenameUpdateManyAnyStep
  \/ DeleteFindByIdAnyStep
  \/ DeleteDeleteManyAnyStep
  \/ DeleteFindByIdAndDeleteAnyStep
  \/ RenameCheckedFindByIdAnyStep
  \/ RenameCheckedFindByIdAndUpdateAnyStep
  \/ RenameCheckedUpdateManyAnyStep
  \/ DeleteFirstFindByIdAnyStep
  \/ DeleteFirstFindByIdAndDeleteAnyStep
  \/ DeleteFirstDeleteManyAnyStep

SpecRetry == Init /\ [][NextRetry]_vars

---------------------------------------------------------------------------
(* The server of src/unnamed/part_001, which fills altQty when a           *)
(* transaction is written and derives altQuantity from the factor when the *)
(* items are listed                                                        *)

\* Item.findOne({ name: name }): the first item of exactly that name.
HasItemNamed(I, name) == \E i \in 1..Len(I) : I[i].name = name
findOneItemByName(I, name) ==
  I[CHOOSE i \in 1..Len(I) :
      /\ I[i].name = name
      /\ \A j \in 1..(i - 1) : I[j].name # name]

\* The first line of calculateAltQty: a submitted altQty that is truthy
\* and not 0 as a number is returned without a store call.
SubmittedAltQty(txnBody) ==
  Truthy(txnBody.altQty) /\ ~StrictEquals(NumberOf(txnBody.altQty), Num(0))

\* Lines 109-111: quantity times the factor, when the factor parses.
factorTimes(qty, factor) == IF factor.k # "nan" THEN Times(qty, factor) ELSE Num(0)

\* Lines 108-112 on the item Item.findOne returned.
factorAltQty(txnBody, item) ==
  IF Truthy(item.factor) /\ item.factor \notin {Str(Manual), Str(<<"-">>)}
  THEN factorTimes(OrElse(ParseFloat(txnBody.quantity), Num(0)), ParseFloat(item.factor))
  ELSE Num(0)

\* Lines 106-114: the try around Item.findOne; when it rejects the catch
\* logs the error and 0 is returned.
lookedUpAltQty(txnBody, I, rejects) ==
  IF rejects THEN Num(0)
  ELSE IF HasItemNamed(I, txnBody.itemName)
  THEN factorAltQty(txnBody, findOneItemByName(I, txnBody.itemName))
  ELSE Num(0)

\* Line 104 with n for Number(txnBody.altQty).
altQtyGiven(txnBody, n, I, rejects) ==
  IF Truthy(txnBody.altQty) /\ ~StrictEquals(n, Num(0)) THEN n
  ELSE lookedUpAltQty(txnBody, I, rejects)

\* calculateAltQty: a submitted non-zero altQty as a number; else quantity
\* times the factor of the item of that name, when there is one and its
\* factor parses; else 0, also when Item.findOne rejects.
calculateAltQty(txnBody, I, rejects) ==
  altQtyGiven(txnBody, NumberOf(txnBody.altQty), I, rejects)

\* Lines 65-72: the branch of the reduce callback.
accumulateNumber(acc, type, qty, alt) ==
  IF type = TypeIN
  THEN [primary |-> Plus(acc.primary, qty), altSum |-> Plus(acc.altSum, alt)]
  ELSE [primary |-> Minus(acc.primary, qty), altSum |-> Minus(acc.altSum, alt)]

\* The reduce of this server's listing: Number() in place of parseFloat.
reduceStepNumber(acc, t) ==
  accumulateNumber(acc, normType(t), OrElse(NumberOf(t.quantity), Num(0)),
                   OrElse(NumberOf(t.altQty), Num(0)))

RECURSIVE reduceNumberFrom(_, _)
reduceNumberFrom(ts, acc) ==
  IF ts = <<>> THEN acc ELSE reduceNumberFrom(Tail(ts), reduceStepNumber(acc, Head(ts)))

\* Lines 81-85 with f for parseFloat(item.factor).
derivedWithFactor(stats, f) ==
  IF f.k # "nan" THEN Times(stats.primary, f) ELSE stats.altSum

\* finalAltQty: primary * factor when the item has a factor that parses,
\* the summed history otherwise.
finalAltQty(stats, item) ==
  IF Truthy(item.factor) /\ item.factor \notin {Str(Manual), Str(<<"-">>)}
  THEN derivedWithFactor(stats, ParseFloat(item.factor))
  ELSE stats.altSum

\* The object the map callback returns, lines 88-93.
itemWithDerivedStats(item, stats) ==
  [id |-> item.id, name |-> item.name, factor |-> item.factor,
   quantity |-> stats.primary, altQuantity |-> finalAltQty(stats, item)]

itemWithDerivedQty(item, T) ==
  itemWithDerivedStats(item, reduceNumberFrom(findTxnsOfItem(item, T),
                                              [primary |-> Num(0), altSum |-> Num(0)]))

\* GET /api/items of this server, line 49: Item.find().lean() resolves and
\* one aggregation per item starts.
ListItemsDerivedFind(r, fail) ==
  /\ Free(r)
  /\ fail \in {"none", "Item.find"}
  /\ LET req == [Request("listItemsDerived", 0, Undef) EXCEPT
                   !.found = items,
                   !.results = [i \in 1..Len(items) |-> NoResult]]
     IN IF fail # "none"
        THEN Answers(r, Request("listItemsDerived", 0, Undef), 500, <<>>)
        ELSE IF \E i \in 1..Len(items) : items[i].name.k # "str"
        THEN Answers(r, req, 500, <<>>)
        ELSE IF items = <<>>
        THEN Answers(r, req, 200, <<>>)
        ELSE Awaits(r, req, "Transaction.find")
  /\ UNCHANGED <<items, txns, nextItemId, nextTxnId>>

\* GET /api/items of this server, lines 55-95: the Transaction.find of the
\* i-th aggregation resolves; the last one sends the response.
ListItemsDerivedAggregate(r, i, fail) ==
  /\ InFlight(r, "listItemsDerived", "Transaction.find")
  /\ i \in 1..Len(reqs[r].found)
  /\ ~Completed(reqs[r], i)
  /\ fail \in {"none", "Transaction.find"}
  /\ IF fail # "none"
     THEN Answers(r, reqs[r], 500, <<>>)
     ELSE ListItemsPlaced(r, placedResult(reqs[r], i,
                                          itemWithDerivedQty(reqs[r].found[i], txns)))
  /\ UNCHANGED <<items, txns, nextItemId, nextTxnId>>

\* POST /api/items of this server: the saved document is returned as it is.
CreateItemSaved(r, body, fail) ==
  /\ Free(r)
  /\ fail \in {"none", "save"}
  /\ nextItemId <= MaxItemIds
  /\ LET req == Request("createItemSaved", nextItemId, body)
         saved == [id |-> nextItemId, name |-> body.name, factor |-> body.factor]
     IN IF fail = "none"
        THEN /\ items' = Append(items, saved)
             /\ nextItemId' = nextItemId + 1
             /\ Answers(r, req, 200, <<saved>>)
        ELSE /\ UNCHANGED <<items, nextItemId>>
             /\ Answers(r, req, 400, <<>>)
  /\ UNCHANGED <<txns, nextTxnId>>

\* The payload with the altQty calculateAltQty returned.
filledPayload(body, I, rejects) ==
  [body EXCEPT !.altQty = calculateAltQty(body, I, rejects)]

\* The save of a filled payload on connection r, and the answer.
SavesFilled(r, req, payload, fail) ==
  saveTransaction(r, [req EXCEPT !.id = nextTxnId, !.body = payload],
                  newTransaction(nextTxnId, payload), fail)

\* The handler after calculateAltQty returned: with a submitted altQty the
\* save is the handler's one store call; otherwise Item.findOne ran.
CreateTransactionFilledWith(r, req, payload, submitted, fail) ==
  IF submitted
  THEN /\ fail \in {"none", "save"}
       /\ SavesFilled(r, req, payload, fail)
  ELSE /\ fail \in {"none", "findOne"}
       /\ Awaits(r, [req EXCEPT
                       !.found = IF fail = "none" /\ HasItemNamed(items, payload.itemName)
                                 THEN <<findOneItemByName(items, payload.itemName)>>
                                 ELSE <<>>,
                       !.body = payload],
                 "save")
       /\ UNCHANGED <<txns, nextTxnId>>

\* POST /api/transactions of this server, lines 119-120 and 104-112:
\* payload.altQty = await calculateAltQty(payload).  A submitted non-zero
\* altQty is returned without a store call, and the save of line 122 is
\* the handler's one store call; otherwise Item.findOne runs first, and
\* when it rejects calculateAltQty logs the error and returns 0.
CreateTransactionFilled(r, body, fail) ==
  /\ Free(r)
  /\ nextTxnId <= MaxTxnIds
  /\ CreateTransactionFilledWith(r, Request("createTransactionFilled", 0, body),
                                 filledPayload(body, items, fail = "findOne"),
                                 SubmittedAltQty(body), fail)
  /\ UNCHANGED <<items, nextItemId>>

\* POST /api/transactions of this server, lines 121-123: new
\* Transaction(payload), await newTxn.save(), res.json(savedTxn).
CreateTransactionFilledSave(r, fail) ==
  /\ InFlight(r, "createTransactionFilled", "save")
  /\ fail \in {"none", "save"}
  /\ nextTxnId <= MaxTxnIds
  /\ SavesFilled(r, reqs[r], reqs[r].body, fail)
  /\ UNCHANGED <<items, nextItemId>>

\* The ledger is T after the update: res.json(updatedTxn), which is null
\* with no transaction of that id.
updateFilledAnswered(r, req, T) ==
  /\ txns' = T
  /\ Answers(r, [req EXCEPT !.found = findById(txns, req.id),
                            !.updated = findById(T, req.id)],
             200, txnsJson(findById(T, req.id)))

\* The findByIdAndUpdate of a filled payload on connection r, cast as the
\* schema says, and the answer.
updateFilled(r, req, cast, fail) ==
  IF fail = "none" /\ ~ValidationFails(cast)
  THEN updateFilledAnswered(r, req,
                            [i \in 1..Len(txns) |->
                               IF txns[i].id = req.id
                               THEN ApplyTxnUpdate(txns[i], cast) ELSE txns[i]])
  ELSE /\ txns' = txns
       /\ Answers(r, req, 400, <<>>)

UpdatesFilled(r, req, payload, fail) ==
  updateFilled(r, [req EXCEPT !.body = payload], castUpdate(payload), fail)

\* The handler after calculateAltQty returned, as in the POST.
UpdateTransactionFilledWith(r, req, payload, submitted, fail) ==
  IF submitted
  THEN /\ fail \in {"none", "findByIdAndUpdate"}
       /\ UpdatesFilled(r, req, payload, fail)
  ELSE /\ fail \in {"none", "findOne"}
       /\ Awaits(r, [req EXCEPT !.body = payload], "findByIdAndUpdate")
       /\ txns' = txns

\* PUT /api/transactions/:id of this server, lines 129-130 and 104-112:
\* payload.altQty = await calculateAltQty(payload), as in the POST.
UpdateTransactionFilled(r, id, body, fail) ==
  /\ Free(r)
  /\ UpdateTransactionFilledWith(r, Request("updateTransactionFilled", id, body),
                                 filledPayload(body, items, fail = "findOne"),
                                 SubmittedAltQty(body), fail)
  /\ UNCHANGED <<items, nextItemId, nextTxnId>>

\* PUT /api/transactions/:id of this server, lines 131-132: await
\* Transaction.findByIdAndUpdate(id, payload, { new: true }).
UpdateTransactionFilledUpdate(r, fail) ==
  /\ InFlight(r, "updateTransactionFilled", "findByIdAndUpdate")
  /\ fail \in {"none", "findByIdAndUpdate"}
  /\ UpdatesFilled(r, reqs[r], reqs[r].body, fail)
  /\ UNCHANGED <<items, nextItemId, nextTxnId>>

\* Transaction.updateMany({ itemName: name }, { $set: { itemName: name } }):
\* the filter and the value are the same req.body.name, so a transaction
\* under a string name is rewritten to the name it carries.  With no name in
\* the body the filter selects the transactions whose itemName is null or
\* missing, and the $set drops the key ("omit") or stores null ("null").
updateManySameName(T, name, undefinedAs) ==
  IF name = Undef /\ undefinedAs = "omit" THEN T
  ELSE IF name \in {Undef, Null}
  THEN [i \in 1..Len(T) |->
          IF T[i].itemName \in {Undef, Null} THEN [T[i] EXCEPT !.itemName = Null]
          ELSE T[i]]
  ELSE updateManyItemName(T, name, name)

\* PUT /api/items/:id of this server, line 147: const updatedItem = await
\* Item.findByIdAndUpdate(id, body, { new: true }), with no findById before
\* it; updatedItem is null when no item has the id.
RenameSavedFindByIdAndUpdate(r, id, body, fail) ==
  /\ Free(r)
  /\ fail \in {"none", "findByIdAndUpdate"}
  /\ LET req == Request("renameOrUpdateItemSaved", id, body)
         updated == findById(itemsUpdated(items, id, body), id)
     IN IF fail # "none"
        THEN /\ items' = items
             /\ Answers(r, req, 400, <<>>)
        ELSE /\ items' = itemsUpdated(items, id, body)
             /\ Awaits(r, [req EXCEPT !.updated = updated], "updateMany")
  /\ UNCHANGED <<txns, nextItemId, nextTxnId>>

\* PUT /api/items/:id of this server, lines 148-149: await
\* Transaction.updateMany({ itemName: req.body.name },
\* { $set: { itemName: req.body.name } }), then res.json(updatedItem), which
\* is null for an unknown id.
RenameSavedUpdateMany(r, undefinedAs, fail) ==
  /\ InFlight(r, "renameOrUpdateItemSaved", "updateMany")
  /\ fail \in {"none", "updateMany"}
  /\ undefinedAs \in {"omit", "null"}
  /\ LET req == reqs[r]
         now == [req EXCEPT !.n = CountItemName(txns, req.body.name)]
     IN /\ req.body.name # Undef => undefinedAs = "omit"
        /\ IF fail # "none"
           THEN /\ txns' = txns
                /\ Answers(r, now, 400, <<>>)
           ELSE /\ txns' = updateManySameName(txns, req.body.name, undefinedAs)
                /\ Answers(r, now, 200, req.updated)
  /\ UNCHANGED <<items, nextItemId, nextTxnId>>

\* Items with a numeric factor or the factor "Manual"; transactions that
\* carry no altQty, under an item's name or a name that differs in case.
FillItemBodies ==
  [name : {Str(Salt), Str(SeaSalt)}, factor : {Str(<<"2", ".", "5">>), Str(Manual)}]
FillTxnBodies ==
  {TxnBody(Date1, TypeIN, Salt, Num(2), Undef),
   TxnBody(Date2, TypeOUT, saltLower, Num(1), Undef),
   TxnBody(Date1, TypeIN, SeaSalt, Str(<<"1", "e", "1">>), Undef)}

\* Bodies of the PUT /api/items/:id: a rename, and a body with no field.
FillItemUpdateBodies ==
  {[name |-> Str(SeaSalt), factor |-> Undef], [name |-> Undef, factor |-> Undef]}

ListItemsDerivedFindStep == \E r \in 1..Len(reqs) : ListItemsDerivedFind(r, "none")
ListItemsDerivedAggregateStep ==
  \E r \in 1..Len(reqs), i \in ItemIds : ListItemsDerivedAggregate(r, i, "none")
CreateItemSavedStep ==
  \E r \in 1..Len(reqs), body \in FillItemBodies : CreateItemSaved(r, body, "none")
CreateTransactionFilledStep ==
  \E r \in 1..Len(reqs), body \in FillTxnBodies :
    CreateTransactionFilled(r, body, "none")
CreateTransactionFilledSaveStep ==
  \E r \in 1..Len(reqs) : CreateTransactionFilledSave(r, "none")
UpdateTransactionFilledStep ==
  \E r \in 1..Len(reqs), id \in TxnIds, body \in FillTxnBodies :
    UpdateTransactionFilled(r, id, body, "none")
UpdateTransactionFilledUpdateStep ==
  \E r \in 1..Len(reqs) : UpdateTransactionFilledUpdate(r, "none")
RenameSavedFindByIdAndUpdateStep ==
  \E r \in 1..Len(reqs), id \in ItemIds, body \in FillItemUpdateBodies :
    RenameSavedFindByIdAndUpdate(r, id, body, "none")
RenameSavedUpdateManyStep ==
  \E r \in 1..Len(reqs), undefinedAs \in {"omit", "null"} :
    RenameSavedUpdateMany(r, undefinedAs, "none")

\* The routes of this server up to the PUT /api/items/:id, one request
\* after the other.
NextFill ==
  \/ CreateItemSavedStep
  \/ CreateTransactionFilledStep
  \/ CreateTransactionFilledSaveStep
  \/ UpdateTransactionFilledStep
  \/ UpdateTransactionFilledUpdateStep
  \/ RenameSavedFindByIdAndUpdateStep
  \/ RenameSavedUpdateManyStep
  \/ ListItemsDerivedFindStep
  \/ ListItemsDerivedAggregateStep

SpecFill == Init /\ [][NextFill]_vars

\* The transaction writes of both servers: bodies with and without altQty,
\* one of them a string that is no number, and an Item.findOne that may
\* reject.
WriteTxnBodies ==
  {TxnBody(Date1, TypeIN, Salt, Str(<<"2">>), Undef),
   TxnBody(Date2, TypeOUT, saltLower, Num(1), Num(3)),
   TxnBody(Date1, TypeIN, Salt, Num(1), Str(<<"1", "e", "3">>)),
   TxnBody(Date1, TypeIN, Salt, Num(1), Str(<<"3", " ", "b", "o", "x">>))}

\* Bodies of the PUT /api/transactions/:id of both servers: one without
\* altQty and one whose altQty is no number.
WriteUpdateBodies ==
  {TxnBody(Date1, TypeIN, Salt, Str(<<"2">>), Undef),
   TxnBody(Date1, TypeIN, Salt, Num(1), Str(<<"3", " ", "b", "o", "x">>))}

CreateTransactionWriteStep ==
  \E r \in 1..Len(reqs), body \in WriteTxnBodies : CreateTransaction(r, body, "none")
UpdateTransactionWriteStep ==
  \E r \in 1..Len(reqs), id \in TxnIds, body \in WriteUpdateBodies :
    UpdateTransaction(r, id, body, "none")
CreateTransactionFilledWriteStep ==
  \E r \in 1..Len(reqs), body \in WriteTxnBodies, fail \in {"none", "findOne"} :
    CreateTransactionFilled(r, body, fail)
UpdateTransactionFilledWriteStep ==
  \E r \in 1..Len(reqs), id \in TxnIds, body \in WriteUpdateBodies,
     fail \in {"none", "findOne"} :
    UpdateTransactionFilled(r, id, body, fail)
NextWrite ==
  \/ CreateItemSavedStep
  \/ CreateTransactionWriteStep
  \/ UpdateTransactionWriteStep
  \/ CreateTransactionFilledWriteStep
  \/ CreateTransactionFilledSaveStep
  \/ UpdateTransactionFilledWriteStep
  \/ UpdateTransactionFilledUpdateStep

SpecWrite == Init /\ [][NextWrite]_vars

---------------------------------------------------------------------------
(* Stored data: specifications that start from a store already filled *)

\* A store holding the catalog I and the ledger T, with the given number of
\* connections and no request in flight.
Stored(I, T, connections) ==
  /\ items = I
  /\ txns = T
  /\ nextItemId = Len(I) + 1
  /\ nextTxnId = Len(T) + 1
  /\ resp = NoResponse
  /\ reqs = [r \in 1..connections |-> NoReq]

\* The ledger of the stored transaction bodies, identifiers in storage
\* order.
AggLedger(bodies) == [i \in 1..Len(bodies) |-> newTransaction(i, bodies[i])]

---------------------------------------------------------------------------
(* The aggregation of GET /api/items on stored data of every shape: the    *)
(* catalog holds one item and the ledger is drawn from a bounded set.      *)

MaxAggTxns == 2

Rice == <<"R", "i", "c", "e">>
BasmatiRice == <<"B", "a", "s", "m", "a", "t", "i", " ", "R", "i", "c", "e">>
TypeInPadded == <<" ", "i", "n", " ">>
TypeOutPadded == <<" ", "o", "u", "t", " ">>
TypeAdj == <<"A", "D", "J">>

\* Stored transactions: a type written in another case and padded, absent,
\* or none of IN and OUT; a quantity or altQty that is absent; a quantity
\* with a fraction; and one transaction of another item.
AggTxns ==
  [date : {Str(Date1)},
   type : {Str(TypeInPadded), Str(TypeOutPadded), Undef, Str(TypeAdj)},
   itemName : {Str(Rice)},
   quantity : {Undef, TwoAndHalf},
   altQty : {Undef, Num(3)}]
  \cup {TxnBody(Date1, TypeIN, BasmatiRice, Num(2), Num(3)),
        TxnBody(Date1, TypeOUT, Rice, Num(2), Num(0))}

AggFactors == {Str(<<"2", ".", "5">>), Str(Manual), Str(<<"-">>), Undef}

\* One item and up to MaxAggTxns stored transactions.
InitAgg ==
  \E f \in AggFactors, len \in 0..MaxAggTxns :
    \E bodies \in [1..len -> AggTxns] :
      Stored(<<[id |-> 1, name |-> Str(Rice), factor |-> f]>>, AggLedger(bodies), 1)

NextAgg ==
  \/ ListItemsFindStep
  \/ ListItemsAggregateStep

SpecAgg == InitAgg /\ [][NextAgg]_vars

---------------------------------------------------------------------------
(* The fold of the aggregation over quantities with fractions, and over    *)
(* altQty values that String() writes with an exponent                     *)

MaxFoldTxns == 3

\* Receipts of 0.1, 0.2 and 0.3, and an issue of 2.
FoldTxns ==
  {TxnBody(Date1, TypeIN, Rice, Tenth, Undef),
   TxnBody(Date1, TypeIN, Rice, Fifth, Undef),
   TxnBody(Date1, TypeIN, Rice, ThreeTenths, Undef),
   TxnBody(Date1, TypeOUT, Rice, Num(2), Undef)}

InitFold ==
  \E len \in 0..MaxFoldTxns :
    \E bodies \in [1..len -> FoldTxns] :
      Stored(<<[id |-> 1, name |-> Str(Rice), factor |-> Str(Manual)]>>,
             AggLedger(bodies), 1)

SpecFold == InitFold /\ [][NextAgg]_vars

\* Transactions whose altQty is 3, a half, 0.0000001, or absent.
AltTxns ==
  [date : {Str(Date1)},
   type : {Str(TypeIN), Str(TypeOUT)},
   itemName : {Str(Rice)},
   quantity : {Num(1)},
   altQty : {Undef, Num(3), ParseFloatString(<<"0", ".", "5">>), TenMillionth}]

InitAlt ==
  \E f \in AggFactors, len \in 0..MaxAggTxns :
    \E bodies \in [1..len -> AltTxns] :
      Stored(<<[id |-> 1, name |-> Str(Rice), factor |-> f]>>, AggLedger(bodies), 1)

SpecAlt == InitAlt /\ [][NextAgg]_vars

---------------------------------------------------------------------------
(* The name matcher of GET /api/items: one item, one receipt of quantity 1, *)
(* names drawn from spellings of one word and of near misses.              *)

RicePadded == <<" ", "r", "i", "c", "e", " ">>
riceLower == <<"r", "i", "c", "e">>
RiceUpper == <<"R", "I", "C", "E">>
RiceTrailing == <<"R", "i", "c", "e", " ">>
Ric == <<"R", "i", "c">>
RDotCe == <<"R", ".", "c", "e">>
Race == <<"R", "a", "c", "e">>

MatchNames ==
  {Rice, RicePadded, riceLower, RiceUpper, RiceTrailing, BasmatiRice, Ric,
   RDotCe, Race}

InitMatch ==
  \E itemName \in MatchNames, txnName \in MatchNames :
    Stored(<<[id |-> 1, name |-> Str(itemName), factor |-> Str(Manual)]>>,
           <<newTransaction(1, TxnBody(Date1, TypeIN, txnName, Num(1), Undef))>>, 1)

SpecMatch == InitMatch /\ [][NextAgg]_vars

---------------------------------------------------------------------------
(* The cascades on a stored catalog *)

\* A catalog of up to MaxItemIds items under three names, one of them
\* unrelated to the other two, and a ledger of up to MaxTxnIds transactions.
FrameItemNames == {Str(Salt), Str(SeaSalt), Str(Rice)}
FrameUpdateBodies == [name : FrameItemNames, factor : {Undef}]
FrameTxnBodies ==
  {TxnBody(Date1, TypeIN, Salt, Num(2), Undef),
   TxnBody(Date2, TypeOUT, saltLower, Num(1), Num(3)),
   TxnBody(Date1, TypeIN, Rice, TwoAndHalf, Num(3))}

InitFrameWith(connections) ==
  \E n \in 1..MaxItemIds, len \in 0..MaxTxnIds :
    \E names \in [1..n -> FrameItemNames], bodies \in [1..len -> FrameTxnBodies] :
      Stored([i \in 1..n |-> [id |-> i, name |-> names[i],
                              factor |-> Str(<<"2", ".", "5">>)]],
             AggLedger(bodies), connections)

RenameFindByIdFrameStep ==
  \E r \in 1..Len(reqs), id \in ItemIds, body \in FrameUpdateBodies :
    RenameFindById(r, id, body, "none")

NextFrame ==
  \/ RenameFindByIdFrameStep
  \/ RenameFindByIdAndUpdateStep
  \/ RenameUpdateManyStep
  \/ DeleteFindByIdStep
  \/ DeleteDeleteManyStep
  \/ DeleteFindByIdAndDeleteStep

\* A stored catalog whose items start under distinct names and whose ledger
\* holds each entry once; renames make names coincide afterwards.
InitCatalog ==
  /\ InitFrameWith(1)
  /\ \A i, j \in 1..Len(items) : i < j => items[i].name # items[j].name
  /\ \A i, j \in 1..Len(txns) :
       i < j => txns[i].date # txns[j].date \/ txns[i].itemName # txns[j].itemName

SpecFrame == InitCatalog /\ [][NextFrame]_vars

---------------------------------------------------------------------------
(* Requests that overlap *)

\* Listings on every connection over a stored catalog: the aggregations of
\* a listing, and of listings that overlap, complete in any order.
SpecConc == InitFrameWith(MaxInFlight) /\ [][NextAgg]_vars

\* A rename is in flight.
RenameInFlight ==
  \E r \in 1..Len(reqs) : reqs[r].op = "renameOrUpdateItem" /\ ~Idle(r)

\* One PUT /api/items/:id, and the POST /api/transactions that arrive while
\* it is in flight; every store call succeeds.
RenameOnceStep ==
  /\ \A r \in 1..Len(reqs) : reqs[r].op = "none"
  /\ RenameFindByIdFrameStep
CreateTransactionBeginStep ==
  /\ RenameInFlight
  /\ \E r \in 1..Len(reqs), body \in FrameTxnBodies : CreateTransactionBegin(r, body)
CreateTransactionSaveStep ==
  \E r \in 1..Len(reqs) : CreateTransactionSave(r, "none")

NextRace ==
  \/ RenameOnceStep
  \/ RenameFindByIdAndUpdateStep
  \/ RenameUpdateManyStep
  \/ CreateTransactionBeginStep
  \/ CreateTransactionSaveStep

SpecRace == InitFrameWith(MaxInFlight) /\ [][NextRace]_vars

---------------------------------------------------------------------------
(* Properties of the aggregation *)

ToLowerCase(cs) == [i \in 1..Len(cs) |-> ToLowerChar(cs[i])]

\* A stored quantity or altQty as a number, 0 when missing or unparsable.
AsNumber(v) == IF v.k \in {"num", "inf"} THEN v ELSE Num(0)

\* The sum of a sequence of numbers, added from left to right.
RECURSIVE FloatSumFrom(_, _)
FloatSumFrom(xs, acc) ==
  IF xs = <<>> THEN acc ELSE FloatSumFrom(Tail(xs), Plus(acc, Head(xs)))
FloatSum(xs) == FloatSumFrom(xs, Num(0))

\* A transaction counts as IN when its type is absent or reads IN after
\* upper-casing and trimming, and as OUT when it reads OUT.
IsIN(t) == ~Truthy(t.type) \/ Trim(ToUpperCase(t.type.s)) = TypeIN
IsOUT(t) == Truthy(t.type) /\ Trim(ToUpperCase(t.type.s)) = TypeOUT

SumQuantity(ts, Keep(_)) ==
  FloatSum([i \in 1..Len(ts) |->
              IF Keep(ts[i]) THEN AsNumber(ts[i].quantity) ELSE Num(0)])

\* The altQty of the transactions, each added when IN and subtracted
\* otherwise, in the order of the sequence.
SignedAltQty(ts) ==
  FloatSum([i \in 1..Len(ts) |->
              IF IsIN(ts[i]) THEN AsNumber(ts[i].altQty)
              ELSE Negate(AsNumber(ts[i].altQty))])

SignedQuantity(ts) ==
  FloatSum([i \in 1..Len(ts) |->
              IF IsIN(ts[i]) THEN AsNumber(ts[i].quantity)
              ELSE Negate(AsNumber(ts[i].quantity))])

\* The factor parses as a number.
FactorIsNumeric(f) == f.k = "str" /\ ParseFloatString(f.s).k # "nan"

\* The response carries the number x.
Reports(reported, x) == StrictEquals(reported, JsonValue(x))

Listed == resp.op = "listItems" /\ resp.status = 200

Reordered(ts, p) == [j \in 1..Len(ts) |-> ts[p[j]]]

\* C1: the quantity listItems reports for an item is the sum of quantity over
\* its matched IN transactions minus the sum over its matched OUT
\* transactions (a missing quantity counts 0), and folding the matched
\* transactions in any other order gives the same quantity.
C1_SignedSum ==
  Listed =>
    \A i \in 1..Len(items) :
      LET matched == findTxnsOfItem(items[i], txns)
      IN /\ Reports(resp.body[i].quantity,
                    Minus(SumQuantity(matched, IsIN), SumQuantity(matched, IsOUT)))
         /\ \A p \in Permutations(1..Len(matched)) :
              Reports(resp.body[i].quantity,
                      itemWithQty(items[i], Reordered(matched, p)).quantity)

\* C2: the matcher pairs a transaction with an item exactly when the two
\* names are equal after trimming both and ignoring case.
C2_TrimBothSides ==
  Listed =>
    (Reports(resp.body[1].quantity, Num(1))
       <=> ToLowerCase(Trim(items[1].name.s)) = ToLowerCase(Trim(txns[1].itemName.s)))

\* C5: altQuantity is the signed sum of altQty over the matched transactions,
\* except that a sum of zero with a non-zero quantity and a factor that
\* parses as a number gives quantity * factor; under the factor "Manual" or
\* "-" it is the sum.
C5_HybridFallback ==
  Listed =>
    \A i \in 1..Len(items) :
      LET matched == findTxnsOfItem(items[i], txns)
          sum == SignedAltQty(matched)
          primary == resp.body[i].quantity
          f == items[i].factor
      IN /\ Reports(resp.body[i].altQuantity,
                    IF IsZero(sum) /\ ~IsZero(primary) /\ FactorIsNumeric(f)
                    THEN Times(primary, ParseFloatString(f.s))
                    ELSE sum)
         /\ f \in {Str(Manual), Str(<<"-">>)} => Reports(resp.body[i].altQuantity, sum)

\* The item's only matched transaction, when it has exactly one.
OnlyMatched(i) == findTxnsOfItem(items[i], txns)[1]
HasOneMatched(i) == Len(findTxnsOfItem(items[i], txns)) = 1

\* C8: the type is upper-cased and trimmed on read; a transaction is
\* subtracted only when its type then reads OUT, and one whose type is absent
\* or unrecognized is added as IN.
C8_UnrecognizedAdded ==
  Listed =>
    \A i \in 1..Len(items) :
      HasOneMatched(i) =>
        Reports(resp.body[i].quantity,
                IF IsOUT(OnlyMatched(i)) THEN Negate(AsNumber(OnlyMatched(i).quantity))
                ELSE AsNumber(OnlyMatched(i).quantity))

\* No stored transaction carries the item's name, case ignored.
NoTransactionNamed(item, T) ==
  \A k \in 1..Len(T) :
    T[k].itemName.k = "str" =>
      ToLowerCase(T[k].itemName.s) # ToLowerCase(Trim(item.name.s))

\* C14: an item that has no matching transaction is listed with quantity 0
\* and altQuantity 0, whatever its factor.
C14_NoHistoryIsZero ==
  Listed =>
    \A i \in 1..Len(items) :
      NoTransactionNamed(items[i], txns) =>
        /\ Reports(resp.body[i].quantity, Num(0))
        /\ Reports(resp.body[i].altQuantity, Num(0))

\* A listing of an item with a numeric factor while the ledger holds only
\* transactions of another item.
C14_Witness ==
  /\ Listed
  /\ txns # <<>>
  /\ \E i \in 1..Len(items) :
       /\ NoTransactionNamed(items[i], txns)
       /\ FactorIsNumeric(items[i].factor)
       /\ Reports(resp.body[i].altQuantity, Num(0))

\* C13: whatever the order in which the per-item aggregations of a listItems
\* complete, the response lists the items in catalog order, each with the
\* quantities of its own matched transactions.
C13_CatalogOrder ==
  Listed =>
    /\ Len(resp.body) = Len(items)
    /\ \A i \in 1..Len(items) :
         /\ resp.body[i].id = items[i].id
         /\ resp.body[i].name = items[i].name
         /\ Reports(resp.body[i].quantity, itemWithQty(items[i], txns).quantity)
         /\ Reports(resp.body[i].altQuantity, itemWithQty(items[i], txns).altQuantity)

\* A listing whose aggregations completed the last item's first, and whose
\* items have different quantities.
C13_Witness ==
  /\ Listed
  /\ Len(resp.req.order) >= 2
  /\ resp.req.order[1] = Len(resp.req.found)
  /\ \E i, j \in 1..Len(resp.body) :
       ~StrictEquals(resp.body[i].quantity, resp.body[j].quantity)

---------------------------------------------------------------------------
(* Properties of the steps of a request *)

\* The step is one of the handler on connection r.
StepOf(r) == reqs'[r] # reqs[r]

\* With the step, the handler on connection r sends its response.
AnswersNow(r) == StepOf(r) /\ reqs'[r].pc = "done"

TxnIdsOf(ts) == {ts[i].id : i \in 1..Len(ts)}

\* C3: after a rename that completes, no transaction is listed under the old
\* name, every transaction counted for the item before is counted for it
\* under the new name, and the item's quantity is what it was.
C3_RenameKeepsAggregate ==
  [][\A r \in 1..Len(reqs) :
       (/\ InFlight(r, "renameOrUpdateItem", "updateMany")
        /\ reqs[r].body.name # Undef
        /\ AnswersNow(r)
        /\ resp'.status = 200) =>
         LET old == reqs[r].found[1]
             new == resp'.body[1]
         IN /\ findTxnsOfItem(old, txns') = <<>>
            /\ TxnIdsOf(findTxnsOfItem(old, txns)) \subseteq
                 TxnIdsOf(findTxnsOfItem(new, txns'))
            /\ StrictEquals(itemWithQty(new, txns').quantity,
                            itemWithQty(old, txns).quantity)
    ]_vars

\* C4: after deleteItem of an existing item named N completes, listTransactions
\* returns no transaction whose itemName is N and the item is gone from the
\* catalog.
C4_DeleteCascade ==
  [][\A r \in 1..Len(reqs) :
       (/\ InFlight(r, "deleteItem", "findByIdAndDelete")
        /\ AnswersNow(r)
        /\ resp'.status = 200) =>
         /\ \A k \in 1..Len(txns') :
              txnsJson(sortByDateDesc(txns'))[k].itemName # reqs[r].found[1].name
         /\ ~HasItem(items', reqs[r].id)
    ]_vars

\* A completed deleteItem that removed transactions and left others.
C4_Witness ==
  /\ resp.op = "deleteItem" /\ resp.status = 200
  /\ resp.req.found # <<>> /\ resp.req.n > 0
  /\ txns # <<>>

\* C9: renameOrUpdateItem, deleteItem, updateTransaction and deleteTransaction
\* on an identifier that names no stored record answer with an error and
\* change neither collection.
C9_NotFoundIsError ==
  [][\A r \in 1..Len(reqs) :
       (/\ AnswersNow(r)
        /\ reqs'[r].op \in {"renameOrUpdateItem", "deleteItem",
                            "updateTransaction", "deleteTransaction"}
        /\ reqs'[r].found = <<>>) =>
         resp'.status # 200 /\ UNCHANGED <<items, txns>>
    ]_vars

\* C10: when the bulk rewrite of a rename rejects after the item update was
\* persisted, the item keeps its new name, every transaction keeps its
\* itemName, and the caller gets an error status.
C10_NoRollback ==
  [][\A r \in 1..Len(reqs) :
       (/\ InFlight(r, "renameOrUpdateItem", "updateMany")
        /\ reqs[r].body.name # Undef
        /\ RenameUpdateMany(r, "omit", "updateMany")) =>
         /\ HasItem(items', reqs[r].id)
         /\ ItemById(items', reqs[r].id).name = reqs[r].body.name
         /\ txns' = txns
         /\ resp'.status = 400
    ]_vars

\* A failed rename cascade: an error answer, transactions still under the
\* old name, and no item of that name left.
C10_Witness ==
  /\ resp.op = "renameOrUpdateItem" /\ resp.status = 400
  /\ resp.req.updated # <<>> /\ resp.req.n > 0
  /\ \E i \in 1..Len(txns) : txns[i].itemName = resp.req.found[1].name
  /\ \A i \in 1..Len(items) : items[i].name # resp.req.found[1].name

\* The last request changed its item and was rejected at the store call on
\* the transactions: a rename whose item update was returned, or a removal
\* whose item is gone.
CascadeFailed ==
  /\ resp.status \in {400, 500}
  /\ resp.req.found # <<>>
  /\ \/ /\ resp.op \in {"renameOrUpdateItem", "renameOrUpdateItemChecked"}
        /\ resp.req.updated # <<>>
        /\ resp.req.body.name.k = "str"
     \/ /\ resp.op = "deleteItemFirst"
        /\ ~HasItem(items, resp.req.id)

\* The request on connection r is the one answered last, sent again.
SentAgain(r) ==
  /\ reqs'[r].op = resp.op
  /\ reqs'[r].id = resp.req.id
  /\ reqs'[r].body = resp.req.body

\* C11: after a cascade failure, the same request sent again and running
\* without failure completes the cascade: no transaction carries the old or
\* deleted name afterwards, and sending it once more changes nothing.
C11_RetryCompletes ==
  [][\A r \in 1..Len(reqs) :
       /\ (/\ CascadeFailed
           /\ AnswersNow(r) /\ SentAgain(r)
           /\ resp'.status \in {200, 404}) =>
            \A k \in 1..Len(txns') : txns'[k].itemName # resp.req.found[1].name
       /\ (/\ resp.op \in {"renameOrUpdateItem", "renameOrUpdateItemChecked",
                         "deleteItemFirst"}
           /\ resp.status \in {200, 404}
           /\ StepOf(r) /\ SentAgain(r)) =>
            UNCHANGED <<items, txns>>
    ]_vars

\* C15: from every state in which the item exists, deleting its transactions
\* and then the item, and deleting the item and then its transactions, end
\* with the same Items and Transactions: each order removes the transactions
\* that carry the name the item had and, in its other step, the item and
\* nothing else.
C15_SameEndState ==
  [][\A r \in 1..Len(reqs) :
       (/\ reqs[r].op \in {"deleteItem", "deleteItemFirst"}
        /\ ~Idle(r)
        /\ StepOf(r)
        /\ ~(reqs'[r].pc = "done" /\ resp'.status # 200)) =>
         LET item == reqs[r].found[1]
         IN /\ reqs[r].pc = "deleteMany" =>
                 /\ txns' = SelectSeq(txns, LAMBDA t : t.itemName # item.name)
                 /\ items' = items
            /\ reqs[r].pc = "findByIdAndDelete" =>
                 /\ items' = SelectSeq(items, LAMBDA it : it.id # item.id)
                 /\ txns' = txns
            /\ reqs'[r].pc = "done" =>
                 /\ ~HasItem(items', item.id)
                 /\ \A k \in 1..Len(txns') : txns'[k].itemName # item.name
    ]_vars

\* The item-first order has removed an item with its transactions and left
\* other transactions.
C15_Witness ==
  /\ resp.op = "deleteItemFirst" /\ resp.status = 200
  /\ resp.req.n > 0
  /\ txns # <<>>

\* C12: listItems writes nothing to Items or Transactions, and a listItems
\* that follows a listItems with no write between them returns the same
\* items with the same quantity and altQuantity.
C12_ListItemsReadOnly ==
  [][\A r \in 1..Len(reqs) :
       (StepOf(r) /\ reqs'[r].op = "listItems") =>
         /\ UNCHANGED <<items, txns>>
         /\ (Listed /\ reqs'[r].pc = "done" /\ resp'.status = 200) =>
              resp'.body = resp.body
    ]_vars

\* A listing of a stocked item over a ledger that also holds a transaction
\* no item matches.
C12_Witness ==
  /\ Listed
  /\ \E i \in 1..Len(items) : ~IsZero(resp.body[i].quantity)
  /\ \E k \in 1..Len(txns) :
       \A i \in 1..Len(items) : findTxnsOfItem(items[i], <<txns[k]>>) = <<>>

\* C16: a renameOrUpdateItem whose body has no name, or the stored name,
\* leaves the itemName of every transaction as it was.
C16_NoRenameNoRewrite ==
  [][\A r \in 1..Len(reqs) :
       (/\ reqs[r].op = "renameOrUpdateItem"
        /\ ~Idle(r)
        /\ StepOf(r)
        /\ reqs[r].found # <<>>
        /\ reqs[r].body.name \in {Undef, reqs[r].found[1].name}) =>
         /\ Len(txns') = Len(txns)
         /\ \A k \in 1..Len(txns) : txns'[k].itemName = txns[k].itemName
    ]_vars

\* C17: the quantity 0 and altQuantity 0 of a createItem response are what
\* a listItems that follows it reports for that item, and createItem changes
\* no transaction.
C17_CreatedAgreesWithListing ==
  [][\A r \in 1..Len(reqs) :
       /\ (/\ resp.op = "createItem" /\ resp.status = 200
           /\ AnswersNow(r) /\ reqs'[r].op = "listItems"
           /\ resp'.status = 200) =>
            \A i \in 1..Len(resp'.body) :
              resp'.body[i].id = resp.body[1].id =>
                /\ StrictEquals(resp'.body[i].quantity, resp.body[1].quantity)
                /\ StrictEquals(resp'.body[i].altQuantity, resp.body[1].altQuantity)
       /\ (StepOf(r) /\ reqs'[r].op = "createItem") => txns' = txns
    ]_vars

---------------------------------------------------------------------------
(* The alternate quantity at write time *)

\* The item the write-time fill looks up has a numeric factor.
NamesNumericItem(body, I) ==
  \E i \in 1..Len(I) : I[i].name = body.itemName /\ FactorIsNumeric(I[i].factor)

\* The altQty the write-time fill stores for a submitted body.
WriteTimeFill(body, I) ==
  IF CastNumber(body.altQty).k \in {"num", "inf"} /\ ~IsZero(CastNumber(body.altQty))
  THEN CastNumber(body.altQty)
  ELSE IF NamesNumericItem(body, I)
       THEN LET i == CHOOSE i \in 1..Len(I) :
                       I[i].name = body.itemName /\ FactorIsNumeric(I[i].factor)
            IN Times(AsNumber(CastNumber(body.quantity)),
                     ParseFloatString(I[i].factor.s))
       ELSE Num(0)

\* The body the request on connection r submitted: a handler that looked
\* the item up was sent no altQty to keep.
Submitted(r) ==
  IF Idle(r) THEN reqs'[r].body ELSE [reqs[r].body EXCEPT !.altQty = Undef]

\* C6: createTransaction and updateTransaction store the altQty of the
\* write-time fill: a submitted non-zero altQty as it is; else quantity times
\* the factor when the named item exists with a numeric factor; else 0.
C6_WriteTimeFill ==
  [][\A r \in 1..Len(reqs) :
       (/\ AnswersNow(r)
        /\ reqs'[r].op \in {"createTransaction", "updateTransaction",
                            "createTransactionFilled", "updateTransactionFilled"}
        /\ resp'.status = 200
        /\ HasTxn(txns', reqs'[r].id)) =>
         StrictEquals(TxnById(txns', reqs'[r].id).altQty,
                      WriteTimeFill(Submitted(r), items))
    ]_vars

\* C7: when every transaction was created with altQty omitted, the signed
\* sum of the stored altQty over the matched transactions of an item with a
\* numeric factor is its quantity times the factor, and listItems reports
\* that value.
C7_ReadWriteAgree ==
  \A i \in 1..Len(items) :
    FactorIsNumeric(items[i].factor) =>
      LET matched == findTxnsOfItem(items[i], txns)
          sum == SignedAltQty(matched)
          primary == SignedQuantity(matched)
      IN /\ StrictEquals(sum, Times(primary, ParseFloatString(items[i].factor.s)))
         /\ (resp.op = "listItemsDerived" /\ resp.status = 200
               /\ Len(resp.body) = Len(items)) =>
              Reports(resp.body[i].altQuantity, sum)

---------------------------------------------------------------------------
(* What a cascade leaves alone *)

\* The item's name, trimmed and case ignored, is not the given name.
Unrelated(item, name) ==
  name.k = "str" => ToLowerCase(Trim(item.name.s)) # ToLowerCase(name.s)

\* listItems reports the same quantities for the item after the step.
SameQuantities(item) ==
  LET before == itemWithQty(item, txns)
      after == itemWithQty(item, txns')
  IN \/ txns' = txns
     \/ /\ StrictEquals(before.quantity, after.quantity)
        /\ StrictEquals(before.altQuantity, after.altQuantity)

\* The step is one of a rename or a removal of an item the handler found.
CascadeStep(r) ==
  /\ reqs[r].op \in {"renameOrUpdateItem", "deleteItem"}
  /\ ~Idle(r)
  /\ StepOf(r)
  /\ reqs[r].found # <<>>

\* The name a rename gives the item.
NewName(req) == IF req.op = "renameOrUpdateItem" THEN req.body.name ELSE Undef

\* C18 as stated: renaming or deleting an item changes the quantities
\* listItems reports for no other item of the catalog.
C18_OtherItemsUntouched ==
  [][\A r \in 1..Len(reqs) :
       CascadeStep(r) =>
         \A j \in 1..Len(items) :
           items[j].id # reqs[r].id => SameQuantities(items[j])
    ]_vars

\* C18 as amended: renaming or deleting an item changes the quantities
\* listItems reports for no other item whose name, trimmed and case ignored,
\* is neither the old nor the new name.
C18_UnrelatedItemsUntouched ==
  [][\A r \in 1..Len(reqs) :
       CascadeStep(r) =>
         \A j \in 1..Len(items) :
           (/\ items[j].id # reqs[r].id
            /\ Unrelated(items[j], reqs[r].found[1].name)
            /\ Unrelated(items[j], NewName(reqs[r]))) => SameQuantities(items[j])
    ]_vars

\* A rename that moved transactions while an item of an unrelated name has
\* stock of its own.
C18_Witness ==
  /\ resp.op = "renameOrUpdateItem" /\ resp.status = 200
  /\ resp.req.n > 0
  /\ \E j \in 1..Len(items) :
       /\ items[j].id # resp.req.id
       /\ Unrelated(items[j], resp.req.found[1].name)
       /\ Unrelated(items[j], resp.req.body.name)
       /\ ~IsZero(itemWithQty(items[j], txns).quantity)

\* C19: when a rename from oldName to newName and the createTransaction
\* requests that arrived while it was in flight have all completed, no
\* transaction has itemName equal to oldName, whatever the order of their
\* store calls.
C19_NoStaleNameAfterRace ==
  \A r \in 1..Len(reqs) :
    (/\ Quiet
     /\ reqs[r].op = "renameOrUpdateItem"
     /\ reqs[r].found # <<>>
     /\ reqs[r].body.name # reqs[r].found[1].name) =>
      \A k \in 1..Len(txns) : txns[k].itemName # reqs[r].found[1].name

=============================================================================
